---- MODULE Spec2Model ----
(***************************************************************************)
(* A model of openapi-auto-validator's ApiValidator                        *)
(* (src/src/validators/api-validator.ts): the contract walker, the path    *)
(* resolver, the example synthesizer and the response conformance checker; *)
(* of SpecValidator (src/src/validators/spec-validator.ts); and of the     *)
(* commands of the command line, which load the file with loadSpec         *)
(* (src/src/utils/loader.ts), run a validator and exit.                    *)
(*                                                                         *)
(* Representation.                                                         *)
(*  - A JavaScript object is a record whose DOMAIN holds exactly the       *)
(*    members that are not undefined: o.f !== undefined is Has(o, "f").    *)
(*  - A JavaScript value that the code inspects by kind (an example, a     *)
(*    response body, a header value) is a tagged record, see Num, Str ...  *)
(*  - A string is a sequence of chunks.  The characters the code looks at  *)
(*    one by one are always chunks of their own: the braces of a path      *)
(*    template, "$" and the characters that may follow it in a             *)
(*    replacement pattern, "/" at the end of a base URL, and the digits of *)
(*    a number's string form.  The words the code searches an error text   *)
(*    for ("Skipped", "ENOENT", "not found", "$ref", "required" ...) are   *)
(*    chunks of their own in every error text.  Every other chunk is a run *)
(*    of characters the code never looks into.                             *)
(***************************************************************************)
EXTENDS Integers, Sequences, FiniteSets, TLC

VARIABLES
    api,        \* what SwaggerParser.dereference(specPath) yields: a document or an error
    endpoints,  \* validate()'s endpoints argument: [list |-> paths], or Undefined
    validatorOptions,  \* the options the ApiValidator is constructed with
    self,       \* the ApiValidator: baseUrl, headers, timeout
    transport,  \* the server behind axios: "any" or "plain", see ServerResponses
    pc,         \* where the run stands: "load", "start", "walk", "await", "done", "exited",
                \* and in SpecValidator.validate "lint", "lint-validate", "lint-done"
    opIdx,      \* the operation the walk is at, an index into OperationsToTest
    inflight,   \* the request config axios is working on, or Undefined
    calls,      \* every request handed to axios, in order: [op, config]
    answers,    \* what axios gave back for each call, in order
    results,    \* validate()'s results array, then its return value
    run,        \* which call of validate() this is: 1, or 2 for a repetition
    earlier,    \* in a repetition, the first call's [results, answers]; else Undefined
    command,    \* who runs the validator: a command of the CLI, or "library" code
    file,       \* what loadSpec(specPath) meets: a file it can load, or a failure
    strict,     \* validate-spec's --strict option
    schemaCheck,  \* what SwaggerParser.validate(specPath) rejects with, or Undefined
    lint,       \* the ValidationResult SpecValidator.validate returned, or Undefined
    exit        \* what the command passed to process.exit, with its counts; else Undefined

vars == <<api, endpoints, validatorOptions, self, transport, pc, opIdx, inflight, calls, answers, results,
          run, earlier, command, file, strict, schemaCheck, lint, exit>>

\* What the steps of ApiValidator.validate leave alone
process == <<command, file, strict, schemaCheck, lint, exit>>

----------------------------------------------------------------------------
(* JavaScript values *)

Undefined == [t |-> "undefined"]

Null == [t |-> "null"]

Num(n) == [t |-> "number", v |-> n]

Str(s) == [t |-> "string", v |-> s]

Bool(b) == [t |-> "boolean", v |-> b]

Arr(s) == [t |-> "array", v |-> s]

\* An object value: its keys in insertion order and, by position, their values.
Obj(keys, vals) == [t |-> "object", k |-> keys, v |-> vals]

Has(o, f) == f \in DOMAIN o

IsNull(x) == Has(x, "t") /\ x.t = "null"

IsUndefined(x) == Has(x, "t") /\ x.t = "undefined"

\* o.f, or undefined
Get(o, f) == IF f \in DOMAIN o THEN o[f] ELSE Undefined

----------------------------------------------------------------------------
(* Strings *)

Digits == <<"0", "1", "2", "3", "4", "5", "6", "7", "8", "9">>

RECURSIVE NatToString(_)
NatToString(n) ==
    IF n < 10 THEN <<Digits[n + 1]>>
    ELSE NatToString(n \div 10) \o <<Digits[(n % 10) + 1]>>

\* Number.prototype.toString() of an integer
NumberToString(n) == IF n < 0 THEN <<"-">> \o NatToString(0 - n) ELSE NatToString(n)

RECURSIVE JoinComma(_)
RECURSIVE ToJsString(_)
\* String(value)
ToJsString(val) ==
    CASE val.t = "string"    -> val.v
      [] val.t = "number"    -> NumberToString(val.v)
      [] val.t = "boolean"   -> IF val.v THEN <<"true">> ELSE <<"false">>
      [] val.t = "null"      -> <<"null">>
      [] val.t = "undefined" -> <<"undefined">>
      [] val.t = "array"     -> JoinComma(val.v)
      [] val.t = "object"    -> <<"[object Object]">>

\* Array.prototype.join(","): null and undefined elements give the empty string
JoinComma(s) ==
    IF Len(s) = 0 THEN <<>>
    ELSE LET h == IF s[1].t \in {"null", "undefined"} THEN <<>> ELSE ToJsString(s[1])
         IN IF Len(s) = 1 THEN h ELSE h \o <<",">> \o JoinComma(Tail(s))

\* The lower-case form of each chunk in use that has upper-case letters.
LowerChunk(c) ==
    CASE c = "X-Rate-Limit" -> "x-rate-limit"
      [] c = "X-Request-Id" -> "x-request-id"
      [] c = "ETag"         -> "etag"
      [] OTHER              -> c

\* String.prototype.toLowerCase()
ToLowerCase(s) == [i \in DOMAIN s |-> LowerChunk(s[i])]

\* Index of the first occurrence of needle in s at or after from, or 0.
RECURSIVE IndexOfFrom(_, _, _)
IndexOfFrom(s, needle, from) ==
    IF from + Len(needle) - 1 > Len(s) THEN 0
    ELSE IF SubSeq(s, from, from + Len(needle) - 1) = needle THEN from
    ELSE IndexOfFrom(s, needle, from + 1)

\* The text a replacement string stands for (ECMAScript GetSubstitution with
\* no captures): $$ is "$", $& the match, $` the text before it, $' the text
\* after it; any other "$" stands for itself.
RECURSIVE GetSubstitution(_, _, _, _)
GetSubstitution(repl, matched, before, after) ==
    IF Len(repl) = 0 THEN <<>>
    ELSE IF repl[1] = "$" /\ Len(repl) >= 2 /\ repl[2] \in {"$", "&", "`", "'"}
    THEN (CASE repl[2] = "$" -> <<"$">>
            [] repl[2] = "&" -> matched
            [] repl[2] = "`" -> before
            [] repl[2] = "'" -> after)
         \o GetSubstitution(SubSeq(repl, 3, Len(repl)), matched, before, after)
    ELSE <<repl[1]>> \o GetSubstitution(Tail(repl), matched, before, after)

\* String.prototype.replace(pattern, replacement) with a string pattern: only
\* the first occurrence is replaced.
StringReplace(s, pattern, repl) ==
    LET i == IndexOfFrom(s, pattern, 1) IN
    IF i = 0 THEN s
    ELSE LET before == SubSeq(s, 1, i - 1)
             after  == SubSeq(s, i + Len(pattern), Len(s))
         IN before \o GetSubstitution(repl, pattern, before, after) \o after

\* Index of the first "}" after position i, or 0.
RECURSIVE NextClose(_, _)
NextClose(s, i) ==
    IF i > Len(s) THEN 0 ELSE IF s[i] = "}" THEN i ELSE NextClose(s, i + 1)

\* path.match(/\{([^}]+)\}/g): the matches from position i on, left to right
\* (the empty sequence stands for null).
RECURSIVE MatchPathParams(_, _)
MatchPathParams(s, i) ==
    IF i > Len(s) THEN <<>>
    ELSE IF s[i] # "{" THEN MatchPathParams(s, i + 1)
    ELSE LET j == NextClose(s, i + 1) IN
         IF j = 0 THEN <<>>
         ELSE IF j = i + 1 THEN MatchPathParams(s, i + 1)
         ELSE <<SubSeq(s, i, j)>> \o MatchPathParams(s, j + 1)

\* baseUrl.replace(/\/$/, '')
StripTrailingSlash(s) ==
    IF Len(s) > 0 /\ s[Len(s)] = "/" THEN SubSeq(s, 1, Len(s) - 1) ELSE s

----------------------------------------------------------------------------
(* Example synthesis: schema -> value *)

\* 'x'.repeat(n)
RECURSIVE Repeat(_, _)
Repeat(c, n) == IF n <= 0 THEN <<>> ELSE <<c>> \o Repeat(c, n - 1)

SchemaType(schema) == IF Has(schema, "type") THEN schema.type ELSE "none"

\* A string rule whose filler is one character longer than minLength.
StringExampleLonger(schema) ==
    LET format == IF Has(schema, "format") THEN schema.format ELSE "none" IN
    CASE format = "date"      -> Str(<<"2", "0", "2", "4", "-", "0", "1", "-", "0", "1">>)
      [] format = "date-time" -> Str(<<"2", "0", "2", "4", "-", "0", "1", "-", "0", "1",
                                       "T", "0", "0", ":", "0", "0", ":", "0", "0", "Z">>)
      [] format = "email"     -> Str(<<"test", "@", "example.com">>)
      [] format = "uuid"      -> Str(<<"550e8400-e29b-41d4-a716-446655440000">>)
      [] format = "uri"       -> Str(<<"https:", "/", "/", "example.com">>)
      [] OTHER -> IF Has(schema, "minLength") /\ schema.minLength # 0
                  THEN Str(Repeat("x", schema.minLength + 1))
                  ELSE Str(<<"string">>)

StringExample(schema) ==
    LET format == IF Has(schema, "format") THEN schema.format ELSE "none" IN
    CASE format = "date"      -> Str(<<"2", "0", "2", "4", "-", "0", "1", "-", "0", "1">>)
      [] format = "date-time" -> Str(<<"2", "0", "2", "4", "-", "0", "1", "-", "0", "1",
                                       "T", "0", "0", ":", "0", "0", ":", "0", "0", "Z">>)
      [] format = "email"     -> Str(<<"test", "@", "example.com">>)
      [] format = "uuid"      -> Str(<<"550e8400-e29b-41d4-a716-446655440000">>)
      [] format = "uri"       -> Str(<<"https:", "/", "/", "example.com">>)
      [] OTHER -> IF Has(schema, "minLength") /\ schema.minLength # 0
                  THEN Str(Repeat("x", schema.minLength))
                  ELSE Str(<<"string">>)

RECURSIVE generateExampleFromSchema(_)
RECURSIVE ObjectExampleFrom(_, _, _)
\* A loop that includes every declared property.
RECURSIVE ObjectExampleAll(_, _, _)
ObjectExampleAll(props, requiredFields, i) ==
    IF i > Len(props) THEN [k |-> <<>>, v |-> <<>>]
    ELSE LET rest == ObjectExampleAll(props, requiredFields, i + 1)
         IN [k |-> <<props[i].name>> \o rest.k,
             v |-> <<generateExampleFromSchema(props[i].schema)>> \o rest.v]

\* The loop of generateObjectExample from property i on: the keys and values
\* of the result, in the order of schema.properties.
ObjectExampleFrom(props, requiredFields, i) ==
    IF i > Len(props) THEN [k |-> <<>>, v |-> <<>>]
    ELSE LET rest == ObjectExampleFrom(props, requiredFields, i + 1)
             prop == props[i].schema
         IN IF (\E j \in DOMAIN requiredFields : requiredFields[j] = props[i].name)
               \/ Has(prop, "example")
            THEN [k |-> <<props[i].name>> \o rest.k,
                  v |-> <<generateExampleFromSchema(prop)>> \o rest.v]
            ELSE rest

generateObjectExample(schema) ==
    IF Has(schema, "properties")
    THEN LET r == ObjectExampleFrom(schema.properties,
                                    IF Has(schema, "required") THEN schema.required ELSE <<>>,
                                    1)
         IN Obj(r.k, r.v)
    ELSE Obj(<<>>, <<>>)

\* A synthesizer that looks at the default before the example.
generateExampleDefaultFirst(schema) ==
    IF Has(schema, "default") THEN schema.default
    ELSE IF Has(schema, "example") THEN schema.example
    ELSE IF Has(schema, "enum") /\ Len(schema.enum) > 0 THEN schema.enum[1]
    ELSE CASE SchemaType(schema) = "string"  -> StringExample(schema)
           [] SchemaType(schema) = "integer" ->
                IF Has(schema, "minimum") THEN Num(schema.minimum) ELSE Num(1)
           [] SchemaType(schema) = "number"  ->
                IF Has(schema, "minimum") THEN Num(schema.minimum) ELSE Num(1)
           [] SchemaType(schema) = "boolean" -> Bool(TRUE)
           [] SchemaType(schema) = "array"   ->
                IF Has(schema, "items")
                THEN Arr(<<generateExampleFromSchema(schema.items)>>)
                ELSE Arr(<<>>)
           [] SchemaType(schema) = "object"  -> generateObjectExample(schema)
           [] OTHER -> Null

generateExampleFromSchema(schema) ==
    IF Has(schema, "example") THEN schema.example
    ELSE IF Has(schema, "default") THEN schema.default
    ELSE IF Has(schema, "enum") /\ Len(schema.enum) > 0 THEN schema.enum[1]
    ELSE CASE SchemaType(schema) = "string"  -> StringExample(schema)
           [] SchemaType(schema) = "integer" ->
                IF Has(schema, "minimum") THEN Num(schema.minimum) ELSE Num(1)
           [] SchemaType(schema) = "number"  ->
                IF Has(schema, "minimum") THEN Num(schema.minimum) ELSE Num(1)
           [] SchemaType(schema) = "boolean" -> Bool(TRUE)
           [] SchemaType(schema) = "array"   ->
                IF Has(schema, "items")
                THEN Arr(<<generateExampleFromSchema(schema.items)>>)
                ELSE Arr(<<>>)
           [] SchemaType(schema) = "object"  -> generateObjectExample(schema)
           [] OTHER -> Null

----------------------------------------------------------------------------
(* Parameters and path resolution *)

getParameterExample(param) ==
    IF Has(param, "example") THEN param.example
    ELSE IF Has(param, "examples") /\ Len(param.examples) > 0
            /\ Has(param.examples[1], "value")
    THEN param.examples[1].value
    ELSE IF Has(param, "schema")
    THEN IF Has(param.schema, "example") THEN param.schema.example
         ELSE IF Has(param.schema, "default") THEN param.schema.default
         ELSE generateExampleFromSchema(param.schema)
    ELSE Undefined

\* [...(pathItem.parameters || []), ...(operation.parameters || [])]
AllParameters(operation, pathItem) ==
    (IF Has(pathItem, "parameters") THEN pathItem.parameters ELSE <<>>)
    \o (IF Has(operation, "parameters") THEN operation.parameters ELSE <<>>)

\* A find that takes a parameter of the name wherever it is declared to go.
RECURSIVE FindPathParamAnyLocation(_, _, _)
FindPathParamAnyLocation(allParameters, paramName, i) ==
    IF i > Len(allParameters) THEN 0
    ELSE IF IsNull(allParameters[i]) THEN -1
    ELSE IF Has(allParameters[i], "name") /\ allParameters[i].name = paramName
    THEN i
    ELSE FindPathParamAnyLocation(allParameters, paramName, i + 1)

\* Array.prototype.find of resolvePath: the index of the first parameter
\* named paramName and declared in: path, or 0; -1 when the search comes to
\* an entry that is null, where 'name' in p raises a TypeError.
RECURSIVE FindPathParam(_, _, _)
FindPathParam(allParameters, paramName, i) ==
    IF i > Len(allParameters) THEN 0
    ELSE IF IsNull(allParameters[i]) THEN -1
    ELSE IF Has(allParameters[i], "name") /\ allParameters[i].name = paramName
            /\ Has(allParameters[i], "in") /\ allParameters[i]["in"] = "path"
    THEN i
    ELSE FindPathParam(allParameters, paramName, i + 1)

\* The for loop of resolvePath from match i on.
RECURSIVE ResolveLoop(_, _, _, _, _)
ResolveLoop(path, resolvedPath, allParameters, matches, i) ==
    IF i > Len(matches) THEN [resolvedPath |-> resolvedPath, skipped |-> FALSE]
    ELSE LET match     == matches[i]
             paramName == SubSeq(match, 2, Len(match) - 1)
             idx       == FindPathParam(allParameters, paramName, 1)
         IN IF idx = -1
            THEN [threw |-> <<"Cannot use 'in' operator to search for 'name' in null">>]
            ELSE IF idx = 0
            THEN [resolvedPath |-> path, skipped |-> TRUE,
                  skipReason |-> <<"Missing path parameter definition: ">> \o paramName]
            ELSE LET exampleValue == getParameterExample(allParameters[idx]) IN
                 IF IsUndefined(exampleValue)
                 THEN [resolvedPath |-> path, skipped |-> TRUE,
                       skipReason |-> <<"No example value for path parameter: ">> \o paramName]
                 ELSE ResolveLoop(path,
                                  StringReplace(resolvedPath, match, ToJsString(exampleValue)),
                                  allParameters, matches, i + 1)

resolvePath(path, operation, pathItem) ==
    LET pathParamMatches == MatchPathParams(path, 1) IN
    IF Len(pathParamMatches) = 0 THEN [resolvedPath |-> path, skipped |-> FALSE]
    ELSE ResolveLoop(path, path, AllParameters(operation, pathItem), pathParamMatches, 1)

----------------------------------------------------------------------------
(* The schema evaluator (Ajv, allErrors: true), for the keywords type,       *)
(* minimum, minLength, items, required, properties and enum.  An error is    *)
(* [instancePath, message]; errors come in the order Ajv reports them.       *)

IsOfType(data, type) ==
    CASE type = "string"  -> data.t = "string"
      [] type = "integer" -> data.t = "number"
      [] type = "number"  -> data.t = "number"
      [] type = "boolean" -> data.t = "boolean"
      [] type = "array"   -> data.t = "array"
      [] type = "object"  -> data.t = "object"
      [] type = "null"    -> data.t = "null"
      [] OTHER            -> FALSE

\* The number of characters of a string
RECURSIVE StringLength(_)
StringLength(s) == IF Len(s) = 0 THEN 0 ELSE Len(s[1]) + StringLength(Tail(s))

SameValue(a, b) == a.t = b.t /\ a = b

\* Index of key in an object value's keys, or 0.
RECURSIVE KeyIndex(_, _, _)
KeyIndex(keys, key, i) ==
    IF i > Len(keys) THEN 0 ELSE IF keys[i] = key THEN i ELSE KeyIndex(keys, key, i + 1)

RECURSIVE Flatten(_)
Flatten(ss) == IF Len(ss) = 0 THEN <<>> ELSE ss[1] \o Flatten(Tail(ss))

RECURSIVE AjvErrors(_, _, _)
AjvErrors(schema, data, path) ==
    LET typeErrors ==
            IF Has(schema, "type") /\ ~IsOfType(data, schema.type)
            THEN <<[instancePath |-> path, message |-> <<"must be ", schema.type>>]>>
            ELSE <<>>
        minimumErrors ==
            IF data.t = "number" /\ Has(schema, "minimum") /\ data.v < schema.minimum
            THEN <<[instancePath |-> path,
                    message |-> <<"must be >= ">> \o NumberToString(schema.minimum)]>>
            ELSE <<>>
        minLengthErrors ==
            IF data.t = "string" /\ Has(schema, "minLength")
               /\ StringLength(data.v) < schema.minLength
            THEN <<[instancePath |-> path,
                    message |-> <<"must NOT have fewer than ">>
                                \o NumberToString(schema.minLength) \o <<" characters">>]>>
            ELSE <<>>
        itemsErrors ==
            IF data.t = "array" /\ Has(schema, "items")
            THEN Flatten([i \in DOMAIN data.v |->
                    AjvErrors(schema.items, data.v[i],
                              path \o <<"/">> \o NumberToString(i - 1))])
            ELSE <<>>
        requiredErrors ==
            IF data.t = "object" /\ Has(schema, "required")
            THEN Flatten([i \in DOMAIN schema.required |->
                    IF KeyIndex(data.k, schema.required[i], 1) = 0
                    THEN <<[instancePath |-> path,
                            message |-> <<"must have required property '">>
                                        \o schema.required[i] \o <<"'">>]>>
                    ELSE <<>>])
            ELSE <<>>
        propertiesErrors ==
            IF data.t = "object" /\ Has(schema, "properties")
            THEN Flatten([i \in DOMAIN schema.properties |->
                    LET at == KeyIndex(data.k, schema.properties[i].name, 1) IN
                    IF at = 0 THEN <<>>
                    ELSE AjvErrors(schema.properties[i].schema, data.v[at],
                                   path \o <<"/">> \o schema.properties[i].name)])
            ELSE <<>>
        enumErrors ==
            IF Has(schema, "enum")
               /\ ~\E i \in DOMAIN schema.enum : SameValue(schema.enum[i], data)
            THEN <<[instancePath |-> path,
                    message |-> <<"must be equal to one of the allowed values">>]>>
            ELSE <<>>
    IN typeErrors \o minimumErrors \o minLengthErrors \o itemsErrors
       \o requiredErrors \o propertiesErrors \o enumErrors

\* validate = this.ajv.compile(schema); validate(data); validate.errors
AjvValidate(schema, data) == AjvErrors(schema, data, <<>>)

----------------------------------------------------------------------------
(* The response conformance checker *)

\* statusStr in operation.responses, and so on
HasSelector(operation, selector) == selector \in DOMAIN operation.responses

WildcardOf(statusStr) == <<statusStr[1], "X", "X">>

\* validateStatusCode as it would be if it forgot the 'default' selector.
validateStatusCodeNoDefault(statusCode, operation) ==
    IF ~Has(operation, "responses") THEN [valid |-> TRUE]
    ELSE LET statusStr == NumberToString(statusCode) IN
         IF ~HasSelector(operation, statusStr)
            /\ ~HasSelector(operation, WildcardOf(statusStr))
         THEN [valid |-> FALSE,
               error |-> <<"Unexpected status code ">> \o NumberToString(statusCode)
                         \o <<" - not defined in spec">>]
         ELSE [valid |-> TRUE]

validateStatusCode(statusCode, operation) ==
    IF ~Has(operation, "responses") THEN [valid |-> TRUE]
    ELSE LET statusStr        == NumberToString(statusCode)
             hasExactMatch    == HasSelector(operation, statusStr)
             hasWildcardMatch == HasSelector(operation, WildcardOf(statusStr))
             hasDefaultMatch  == HasSelector(operation, <<"default">>)
         IN IF ~hasExactMatch /\ ~hasWildcardMatch /\ ~hasDefaultMatch
            THEN [valid |-> FALSE,
                  error |-> <<"Unexpected status code ">> \o NumberToString(statusCode)
                            \o <<" - not defined in spec">>]
            ELSE [valid |-> TRUE]

\* getResponseSpec as it would be if it tried the class wildcard first.
getResponseSpecWildcardFirst(statusCode, operation) ==
    IF ~Has(operation, "responses") THEN Null
    ELSE LET statusStr == NumberToString(statusCode) IN
         IF HasSelector(operation, WildcardOf(statusStr))
         THEN operation.responses[WildcardOf(statusStr)]
         ELSE IF HasSelector(operation, statusStr) THEN operation.responses[statusStr]
         ELSE IF HasSelector(operation, <<"default">>)
         THEN operation.responses[<<"default">>]
         ELSE Null

getResponseSpec(statusCode, operation) ==
    IF ~Has(operation, "responses") THEN Null
    ELSE LET statusStr == NumberToString(statusCode) IN
         IF HasSelector(operation, statusStr) THEN operation.responses[statusStr]
         ELSE IF HasSelector(operation, WildcardOf(statusStr))
         THEN operation.responses[WildcardOf(statusStr)]
         ELSE IF HasSelector(operation, <<"default">>)
         THEN operation.responses[<<"default">>]
         ELSE Null

\* validate.errors.map(e => e.message).join(', ')
RECURSIVE JoinMessages(_)
JoinMessages(errors) ==
    IF Len(errors) = 0 THEN <<>>
    ELSE IF Len(errors) = 1 THEN errors[1].message
    ELSE errors[1].message \o <<", ">> \o JoinMessages(Tail(errors))

\* The loop body as it would be if it looked the header up by its declared
\* name, not lower-cased.
HeaderErrorsCaseSensitive(headers, entry) ==
    LET present == entry.name \in DOMAIN headers
    IN IF Has(entry.spec, "required") /\ entry.spec.required /\ ~present
       THEN <<[header |-> entry.name, message |-> <<"Required header is missing">>]>>
       ELSE IF present /\ Has(entry.spec, "schema")
       THEN LET errors == AjvValidate(entry.spec.schema, headers[entry.name]) IN
            IF Len(errors) > 0
            THEN <<[header |-> entry.name, message |-> JoinMessages(errors)]>>
            ELSE <<>>
       ELSE <<>>

\* The body of validateResponseHeaders's loop for the i-th declared header.
HeaderErrors(headers, entry) ==
    LET lower == ToLowerCase(entry.name)
        present == lower \in DOMAIN headers
    IN IF Has(entry.spec, "required") /\ entry.spec.required /\ ~present
       THEN <<[header |-> entry.name, message |-> <<"Required header is missing">>]>>
       ELSE IF present /\ Has(entry.spec, "schema")
       THEN LET errors == AjvValidate(entry.spec.schema, headers[lower]) IN
            IF Len(errors) > 0
            THEN <<[header |-> entry.name, message |-> JoinMessages(errors)]>>
            ELSE <<>>
       ELSE <<>>

validateResponseHeaders(headers, responseSpec) ==
    IF ~Has(responseSpec, "headers") THEN [valid |-> TRUE, errors |-> <<>>]
    ELSE LET errors == Flatten([i \in DOMAIN responseSpec.headers |->
                                  HeaderErrors(headers, responseSpec.headers[i])])
         IN [valid |-> Len(errors) = 0, errors |-> errors]

\* validateResponseBody as it would be if it reported the first error only.
validateResponseBodyFirstError(responseData, responseSpec) ==
    IF ~Has(responseSpec, "content") THEN [valid |-> TRUE]
    ELSE IF ~(Has(responseSpec.content, "application/json")
              /\ Has(responseSpec.content["application/json"], "schema"))
    THEN [valid |-> TRUE]
    ELSE LET errors == AjvValidate(responseSpec.content["application/json"].schema,
                                   responseData)
         IN IF Len(errors) > 0
            THEN [valid |-> FALSE,
                  details |-> <<<<"Body ">>
                                \o (IF Len(errors[1].instancePath) = 0 THEN <<"root">>
                                    ELSE errors[1].instancePath)
                                \o <<": ">> \o errors[1].message>>]
            ELSE [valid |-> TRUE]

validateResponseBody(responseData, responseSpec) ==
    IF ~Has(responseSpec, "content") THEN [valid |-> TRUE]
    ELSE IF ~(Has(responseSpec.content, "application/json")
              /\ Has(responseSpec.content["application/json"], "schema"))
    THEN [valid |-> TRUE]
    ELSE LET errors == AjvValidate(responseSpec.content["application/json"].schema,
                                   responseData)
         IN IF Len(errors) > 0
            THEN [valid |-> FALSE,
                  details |-> [i \in DOMAIN errors |->
                      <<"Body ">>
                      \o (IF Len(errors[i].instancePath) = 0 THEN <<"root">>
                          ELSE errors[i].instancePath)
                      \o <<": ">> \o errors[i].message]]
            ELSE [valid |-> TRUE]

\* The result as it would be if only the first violation were kept.
CheckResultFirstOnly(hasErrors, details) ==
    IF hasErrors
    THEN IF Len(details) > 0
         THEN [valid |-> FALSE, error |-> <<"Response validation failed">>,
               details |-> <<details[1]>>]
         ELSE [valid |-> FALSE, error |-> <<"Response validation failed">>]
    ELSE [valid |-> TRUE]

\* { valid: !hasErrors, error: hasErrors ? ... : undefined,
\*   details: details.length > 0 ? details : undefined }
CheckResult(hasErrors, details) ==
    IF hasErrors
    THEN IF Len(details) > 0
         THEN [valid |-> FALSE, error |-> <<"Response validation failed">>, details |-> details]
         ELSE [valid |-> FALSE, error |-> <<"Response validation failed">>]
    ELSE IF Len(details) > 0
         THEN [valid |-> TRUE, details |-> details]
         ELSE [valid |-> TRUE]

validateFullResponse(response, operation) ==
    IF ~Has(operation, "responses") THEN [valid |-> TRUE]
    ELSE LET statusValidation == validateStatusCode(response.status, operation)
             statusDetails    == IF ~statusValidation.valid /\ Has(statusValidation, "error")
                                 THEN <<statusValidation.error>> ELSE <<>>
             responseSpec     == getResponseSpec(response.status, operation)
         IN IF IsNull(responseSpec)
            THEN CheckResult(~statusValidation.valid, statusDetails)
            ELSE LET headerValidation == validateResponseHeaders(response.headers, responseSpec)
                     headerDetails ==
                         IF ~headerValidation.valid
                         THEN [i \in DOMAIN headerValidation.errors |->
                                 <<"Header '">> \o headerValidation.errors[i].header
                                 \o <<"': ">> \o headerValidation.errors[i].message]
                         ELSE <<>>
                     bodyValidation == validateResponseBody(response.data, responseSpec)
                     bodyDetails ==
                         IF ~bodyValidation.valid /\ Has(bodyValidation, "details")
                         THEN bodyValidation.details ELSE <<>>
                 IN CheckResult(~statusValidation.valid \/ ~headerValidation.valid
                                    \/ ~bodyValidation.valid,
                                statusDetails \o headerDetails \o bodyDetails)

----------------------------------------------------------------------------
(* Request building *)

\* An object without members
EmptyMap == [k \in {} |-> <<>>]

extractBodyExample(mediaType) ==
    IF Has(mediaType, "example") THEN mediaType.example
    ELSE IF Has(mediaType, "examples") /\ Len(mediaType.examples) > 0
            /\ Has(mediaType.examples[1], "value")
    THEN mediaType.examples[1].value
    ELSE IF Has(mediaType, "schema") THEN generateExampleFromSchema(mediaType.schema)
    ELSE Obj(<<>>, <<>>)

\* A body builder that prefers the form content to the JSON content.
buildRequestBodyFormFirst(operation) ==
    IF ~Has(operation, "requestBody") THEN Null
    ELSE IF ~Has(operation.requestBody, "content") THEN Null
    ELSE LET content == operation.requestBody.content IN
         IF Has(content, "application/x-www-form-urlencoded")
         THEN [body |-> extractBodyExample(content["application/x-www-form-urlencoded"]),
               contentType |-> <<"application/x-www-form-urlencoded">>]
         ELSE IF Has(content, "application/json")
         THEN [body |-> extractBodyExample(content["application/json"]),
               contentType |-> <<"application/json">>]
         ELSE Null

buildRequestBody(operation) ==
    IF ~Has(operation, "requestBody") THEN Null
    ELSE IF ~Has(operation.requestBody, "content") THEN Null
    ELSE LET content == operation.requestBody.content IN
         IF Has(content, "application/json")
         THEN [body |-> extractBodyExample(content["application/json"]),
               contentType |-> <<"application/json">>]
         ELSE IF Has(content, "application/x-www-form-urlencoded")
         THEN [body |-> extractBodyExample(content["application/x-www-form-urlencoded"]),
               contentType |-> <<"application/x-www-form-urlencoded">>]
         ELSE Null

\* generateExampleFromSchema, called on the schema at the root of a cycle,
\* comes to call itself on that same schema: whether the call on a schema
\* below the root does.  An example, a default or allowed values end a call
\* before it looks at the items or the properties.
RECURSIVE Recurs(_)
Recurs(schema) ==
    IF Has(schema, "circular") THEN TRUE
    ELSE IF Has(schema, "example") \/ Has(schema, "default")
            \/ (Has(schema, "enum") /\ Len(schema.enum) > 0)
    THEN FALSE
    ELSE IF SchemaType(schema) = "array" THEN Has(schema, "items") /\ Recurs(schema.items)
    ELSE IF SchemaType(schema) = "object"
    THEN /\ Has(schema, "properties")
         /\ \E i \in DOMAIN schema.properties :
               /\ \/ Has(schema, "required")
                     /\ \E j \in DOMAIN schema.required :
                           schema.required[j] = schema.properties[i].name
                  \/ Has(schema.properties[i].schema, "example")
               /\ Recurs(schema.properties[i].schema)
    ELSE FALSE

\* The recursion never ends: RangeError, 'Maximum call stack size exceeded'
CallStackExceeded(schema) == Recurs(schema)

\* buildRequestBody raises when the schema it synthesizes from never ends
buildRequestBodyThrows(operation) ==
    /\ Has(operation, "requestBody")
    /\ Has(operation.requestBody, "content")
    /\ LET content == operation.requestBody.content
           chosen  == IF Has(content, "application/json") THEN {content["application/json"]}
                      ELSE IF Has(content, "application/x-www-form-urlencoded")
                      THEN {content["application/x-www-form-urlencoded"]}
                      ELSE {}
       IN \E mediaType \in chosen :
             /\ ~Has(mediaType, "example")
             /\ ~(Has(mediaType, "examples") /\ Len(mediaType.examples) > 0
                  /\ Has(mediaType.examples[1], "value"))
             /\ Has(mediaType, "schema")
             /\ CallStackExceeded(mediaType.schema)

\* buildQueryParams raises a TypeError when it reads param.in of a null entry.
buildQueryParamsThrows(operation, pathItem) ==
    \E i \in DOMAIN AllParameters(operation, pathItem) :
        IsNull(AllParameters(operation, pathItem)[i])

\* The loop of buildQueryParams over the first n parameters.
RECURSIVE QueryParamsUpTo(_, _)
QueryParamsUpTo(allParameters, n) ==
    IF n = 0 THEN EmptyMap
    ELSE LET params == QueryParamsUpTo(allParameters, n - 1)
             param  == allParameters[n]
         IN IF Has(param, "in") /\ param["in"] = "query"
               /\ ((Has(param, "required") /\ param.required) \/ Has(param, "example"))
               /\ ~IsUndefined(getParameterExample(param))
            THEN (param.name :> ToJsString(getParameterExample(param))) @@ params
            ELSE params

buildQueryParams(operation, pathItem) ==
    LET allParameters == AllParameters(operation, pathItem)
    IN QueryParamsUpTo(allParameters, Len(allParameters))

\* A config in which a header of the caller wins over the fixed Accept.
RequestConfigCallerFirst(method, url, operation, pathItem) ==
    LET queryParams     == buildQueryParams(operation, pathItem)
        requestBodyData == buildRequestBody(operation)
        withBody        == ~IsNull(requestBodyData) /\ method \in {"post", "put", "patch"}
        base == [method  |-> method,
                 url     |-> url,
                 headers |-> self.headers @@ ("Accept" :> <<"application/json">>),
                 timeout |-> self.timeout]
        withParams == IF DOMAIN queryParams # {} THEN [params |-> queryParams] @@ base
                      ELSE base
    IN IF withBody
       THEN [data    |-> requestBodyData.body,
             headers |-> ("Content-Type" :> requestBodyData.contentType) @@ withParams.headers]
            @@ withParams
       ELSE withParams

\* A config that carries the body whatever the method.
RequestConfigAnyMethod(method, url, operation, pathItem) ==
    LET queryParams     == buildQueryParams(operation, pathItem)
        requestBodyData == buildRequestBody(operation)
        withBody        == ~IsNull(requestBodyData)
        base == [method  |-> method,
                 url     |-> url,
                 headers |-> ("Accept" :> <<"application/json">>) @@ self.headers,
                 timeout |-> self.timeout]
        withParams == IF DOMAIN queryParams # {} THEN [params |-> queryParams] @@ base
                      ELSE base
    IN IF withBody
       THEN [data    |-> requestBodyData.body,
             headers |-> ("Content-Type" :> requestBodyData.contentType) @@ withParams.headers]
            @@ withParams
       ELSE withParams

\* The request config testEndpoint hands to axios.
RequestConfig(method, url, operation, pathItem) ==
    LET queryParams     == buildQueryParams(operation, pathItem)
        requestBodyData == buildRequestBody(operation)
        withBody        == ~IsNull(requestBodyData) /\ method \in {"post", "put", "patch"}
        base == [method  |-> method,
                 url     |-> url,
                 headers |-> ("Accept" :> <<"application/json">>) @@ self.headers,
                 timeout |-> self.timeout]
        withParams == IF DOMAIN queryParams # {} THEN [params |-> queryParams] @@ base
                      ELSE base
    IN IF withBody
       THEN [data    |-> requestBodyData.body,
             headers |-> ("Content-Type" :> requestBodyData.contentType) @@ withParams.headers]
            @@ withParams
       ELSE withParams

----------------------------------------------------------------------------
(* The contract walker *)

\* A loop that looks for post first.
MethodsPostFirst == <<"post", "get", "put", "patch", "delete">>

Methods == <<"get", "post", "put", "patch", "delete">>

\* A filter that lets every path through once a list is given.
IncludesAnything(list, x) == x = x

\* endpoints.includes(path)
Includes(list, x) == \E i \in DOMAIN list : list[i] = x

\* The operations of one path item, by the loop over methods from method m on.
RECURSIVE OperationsOfPath(_, _)
OperationsOfPath(entry, m) ==
    IF m > Len(Methods) THEN <<>>
    ELSE (IF Has(entry.item, Methods[m])
          THEN <<[path |-> entry.path, method |-> Methods[m],
                  operation |-> entry.item[Methods[m]], pathItem |-> entry.item]>>
          ELSE <<>>)
         \o OperationsOfPath(entry, m + 1)

\* The calls of testEndpoint the two loops of validate make, in order, over
\* the entries of api.paths from entry i on.
RECURSIVE OperationsFrom(_, _, _)
OperationsFrom(paths, list, i) ==
    IF i > Len(paths) THEN <<>>
    ELSE (IF (Has(list, "list") => Includes(list.list, paths[i].path))
             /\ ~IsNull(paths[i].item)
          THEN OperationsOfPath(paths[i], 1)
          ELSE <<>>)
         \o OperationsFrom(paths, list, i + 1)

OperationsToTest == OperationsFrom(api.paths, endpoints, 1)

\* What testEndpoint raises before its try block, where nothing catches it but
\* validate: the error of resolvePath or of buildQueryParams, or Undefined.
ThrownBeforeRequest(path, operation, pathItem) ==
    LET resolved == resolvePath(path, operation, pathItem) IN
    IF Has(resolved, "threw") THEN [message |-> resolved.threw]
    ELSE IF resolved.skipped THEN Undefined
    ELSE IF buildQueryParamsThrows(operation, pathItem)
    THEN [message |-> <<"Cannot read properties of null (reading 'in')">>]
    ELSE IF buildRequestBodyThrows(operation)
    THEN [message |-> <<"Maximum call stack size exceeded">>]
    ELSE Undefined

\* The verdict validate returns when it cannot walk the document.
SyntheticVerdict(message) ==
    [path |-> <<"/">>, method |-> "get", valid |-> FALSE, error |-> message,
     responseTime |-> 0]

\* A skip recorded as a failure.
SkippedVerdictFailed(path, method, skipReason) ==
    [path |-> path, method |-> method, valid |-> FALSE, statusCode |-> 0,
     responseTime |-> 0, error |-> <<"Skipped", " - ">> \o skipReason]

SkippedVerdict(path, method, skipReason) ==
    [path |-> path, method |-> method, valid |-> TRUE, statusCode |-> 0,
     responseTime |-> 0, error |-> <<"Skipped", " - ">> \o skipReason]

\* The verdict of a received response: validateFullResponse's valid, error
\* and details, of which the last two may be undefined.
ResponseVerdict(path, method, response, operation, responseTime) ==
    LET validationResult == validateFullResponse(response, operation) IN
    [m \in {"error", "details"} \cap DOMAIN validationResult |-> validationResult[m]]
    @@ [path |-> path, method |-> method, valid |-> validationResult.valid,
        statusCode |-> response.status, responseTime |-> responseTime]

\* A failure verdict that reports a status code.
FailureVerdictWithStatus(path, method, error, responseTime) ==
    [path |-> path, method |-> method, valid |-> FALSE, responseTime |-> responseTime,
     statusCode |-> 0,
     error |-> IF error.isAxiosError
               THEN IF error.code = "ECONNREFUSED"
                    THEN <<"Connection refused - is the server running?">>
                    ELSE error.message
               ELSE <<"Unknown error occurred">>]

\* The verdict of a rejected axios call.
FailureVerdict(path, method, error, responseTime) ==
    [path |-> path, method |-> method, valid |-> FALSE, responseTime |-> responseTime,
     error |-> IF error.isAxiosError
               THEN IF error.code = "ECONNREFUSED"
                    THEN <<"Connection refused - is the server running?">>
                    ELSE error.message
               ELSE <<"Unknown error occurred">>]

----------------------------------------------------------------------------
(* The inputs *)

DefaultTimeout == 5000

\* new ApiValidator(options)
Constructor(options) ==
    [baseUrl |-> StripTrailingSlash(options.baseUrl),
     headers |-> IF Has(options, "headers") THEN options.headers ELSE EmptyMap,
     timeout |-> IF Has(options, "timeout") /\ options.timeout # 0
                 THEN options.timeout ELSE DefaultTimeout]

\* Documents, written as README.md's testSpec is: paths in document order,
\* each [path, item].

UsersPath == <<"/users">>

UserByIdPath == <<"/users/", "{", "id", "}">>

UserPostsPath == <<"/users/", "{", "id", "}", "/posts">>

PostOfUserPath == <<"/users/", "{", "id", "}", "/posts/", "{", "pid", "}">>

TwiceIdPath == <<"/a/", "{", "id", "}", "/b/", "{", "id", "}">>

EmptyBracesPath == <<"/x/", "{", "}">>

HealthPath == <<"/health">>

UserSchema ==
    [type |-> "object",
     properties |-> <<[name |-> <<"id">>, schema |-> [type |-> "integer"]],
                      [name |-> <<"name">>, schema |-> [type |-> "string"]]>>,
     required |-> <<<<"id">>, <<"name">>>>]

UsersSchema == [type |-> "array", items |-> UserSchema]

\* The response objects an operation may declare, one per selector.
ResponseOf(selector) ==
    CASE selector = <<"2", "0", "0">> ->
           [description |-> <<"Successful response">>,
            headers |-> <<[name |-> <<"X-Rate-Limit">>,
                           spec |-> [required |-> TRUE,
                                     schema |-> [type |-> "string", minLength |-> 2]]],
                          [name |-> <<"ETag">>,
                           spec |-> [schema |-> [type |-> "integer"]]]>>,
            content |-> ("application/json" :> [schema |-> UsersSchema])]
      [] selector = <<"4", "0", "4">> ->
           [description |-> <<"User not found">>]
      [] selector = <<"4", "X", "X">> ->
           [description |-> <<"Client error">>,
            headers |-> <<[name |-> <<"X-Request-Id">>, spec |-> [required |-> TRUE]]>>,
            content |-> ("text/plain" :> [schema |-> [type |-> "string"]])]
      [] selector = <<"2", "X", "X">> ->
           [description |-> <<"Success">>,
            content |-> ("application/json" :>
                            [schema |-> [type |-> "object", required |-> <<<<"id">>>>]])]
      [] selector = <<"default">> ->
           [description |-> <<"Anything else">>,
            headers |-> <<[name |-> <<"ETag">>, spec |-> [schema |-> [type |-> "integer"]]]>>,
            content |-> ("application/json" :> [example |-> Obj(<<>>, <<>>)])]

Selectors ==
    {<<"2", "0", "0">>, <<"4", "0", "4">>, <<"4", "X", "X">>, <<"2", "X", "X">>, <<"default">>}

\* Operations with every choice of declared selectors, and one without responses.
CheckedOperations ==
    {[operationId |-> <<"getUsers">>]}
    \cup {[operationId |-> <<"getUsers">>, responses |-> [sel \in S |-> ResponseOf(sel)]] :
            S \in SUBSET Selectors}

GoodUser == Obj(<<<<"id">>, <<"name">>>>, <<Num(1), Str(<<"John">>)>>)

BadIdUser == Obj(<<<<"id">>, <<"name">>>>, <<Str(<<"not-a-number">>), Str(<<"John">>)>>)

NamelessUser == Obj(<<<<"name">>>>, <<Str(<<"Jane">>)>>)

Bodies == {Arr(<<GoodUser>>), Arr(<<BadIdUser>>), Arr(<<BadIdUser, NamelessUser>>), GoodUser,
           NamelessUser}

\* Response headers, as axios gives them: lower-case names.
HeaderSets ==
    {EmptyMap,
     <<"x-rate-limit">> :> Str(<<"1", "0", "0">>),
     <<"etag">> :> Str(<<"abc">>),
     (<<"x-rate-limit">> :> Str(<<"5">>)) @@ (<<"etag">> :> Str(<<"abc">>))
         @@ (<<"x-request-id">> :> Str(<<"r-1">>))}

StatusCodes == {200, 201, 403, 404, 500}

CheckedResponses ==
    {[status |-> st, headers |-> h, data |-> d] : st \in StatusCodes, h \in HeaderSets,
                                                  d \in Bodies}

\* A server that answers 200 with a user, or 500.
PlainResponses ==
    {[status |-> 200, headers |-> EmptyMap, data |-> GoodUser],
     [status |-> 500, headers |-> EmptyMap, data |-> Obj(<<<<"error">>>>, <<Str(<<"Server error">>)>>)]}

ServerResponses(kind) == IF kind = "any" THEN CheckedResponses ELSE PlainResponses

DocumentOf(path, item) == [openapi |-> <<"3.0.3">>, paths |-> <<[path |-> path, item |-> item]>>]

LocalOptions == [baseUrl |-> <<"http:", "/", "/", "localhost:3000">>, timeout |-> 5000]

\* Parameter declarations.  IdExample is README.md's parameter of /users/{id},
\* IdBare the one of /users/{id}/posts.

IdExample ==
    [name |-> <<"id">>, in |-> "path", required |-> TRUE, schema |-> [type |-> "integer"],
     example |-> Num(123)]

IdOperationLevel ==
    [name |-> <<"id">>, in |-> "path", required |-> TRUE, schema |-> [type |-> "integer"],
     example |-> Num(42)]

IdBare == [name |-> <<"id">>, in |-> "path", required |-> TRUE]

IdInteger == [name |-> <<"id">>, in |-> "path", required |-> TRUE, schema |-> [type |-> "integer"]]

IdUuid ==
    [name |-> <<"id">>, in |-> "path", required |-> TRUE,
     schema |-> [type |-> "string", format |-> "uuid"]]

IdExamples ==
    [name |-> <<"id">>, in |-> "path", required |-> TRUE,
     examples |-> <<[summary |-> <<"first">>, value |-> Str(<<"abc">>)],
                    [summary |-> <<"second">>, value |-> Str(<<"def">>)]>>]

\* A schema that names no type
IdUntyped ==
    [name |-> <<"id">>, in |-> "path", required |-> TRUE,
     schema |-> [description |-> <<"Opaque identifier">>]]

\* An example whose text is a replacement pattern
IdDollar ==
    [name |-> <<"id">>, in |-> "path", required |-> TRUE, schema |-> [type |-> "string"],
     example |-> Str(<<"$", "&">>)]

IdQuery ==
    [name |-> <<"id">>, in |-> "query", required |-> TRUE, schema |-> [type |-> "integer"],
     example |-> Num(7)]

PidExample ==
    [name |-> <<"pid">>, in |-> "path", required |-> TRUE, schema |-> [type |-> "integer"],
     example |-> Num(9)]

PidBare == [name |-> <<"pid">>, in |-> "path", required |-> TRUE]

\* The parameters a path item may carry (the empty sequence: no parameters member)
PathItemParameters ==
    {<<>>, <<IdExample>>, <<IdBare>>, <<IdQuery>>, <<IdUntyped>>, <<IdDollar>>,
     <<IdExample, PidExample>>}

\* The parameters an operation may carry
OperationParameters ==
    {<<>>, <<IdOperationLevel>>, <<IdBare>>, <<IdInteger>>, <<IdUuid>>, <<IdExamples>>,
     <<PidExample>>, <<PidBare>>, <<IdQuery, IdOperationLevel>>, <<IdBare, PidBare>>}

Templates == {UserByIdPath, UserPostsPath, PostOfUserPath, TwiceIdPath, EmptyBracesPath}

WithParameters(object, parameters) ==
    IF Len(parameters) = 0 THEN object ELSE [parameters |-> parameters] @@ object

\* A get operation that answers 200, under a path item, each with parameters
ResolvedOperation(parameters) ==
    WithParameters([operationId |-> <<"getUserById">>,
                    responses |-> (<<"2", "0", "0">> :> [description |-> <<"Success">>])],
                   parameters)

\* The path items of README.md's testSpec, and one with no operation under a
\* method validate looks for.  A path item with several operations lists
\* their keys in the order the document declares them, under "declared".

UsersItem ==
    [declared |-> <<"get", "post">>,
     get  |-> [operationId |-> <<"getUsers">>,
               responses |-> (<<"2", "0", "0">> :>
                   [description |-> <<"Successful response">>,
                    content |-> ("application/json" :> [schema |-> UsersSchema])])],
     post |-> [operationId |-> <<"createUser">>,
               requestBody |->
                   [required |-> TRUE,
                    content |-> ("application/json" :>
                        [schema |-> UserSchema,
                         example |-> Obj(<<<<"name">>, <<"email">>>>,
                                         <<Str(<<"Test User">>),
                                           Str(<<"test", "@", "example.com">>)>>)])],
               responses |-> (<<"2", "0", "1">> :>
                   [description |-> <<"User created">>,
                    content |-> ("application/json" :> [schema |-> [type |-> "object"]])])]]

UserByIdItem ==
    [parameters |-> <<IdExample>>,
     get |-> [operationId |-> <<"getUserById">>,
              responses |-> (<<"2", "0", "0">> :>
                                [description |-> <<"Successful response">>,
                                 content |-> ("application/json" :>
                                                 [schema |-> [type |-> "object"]])])
                            @@ (<<"4", "0", "4">> :> [description |-> <<"User not found">>])]]

UserPostsItem ==
    [get |-> [operationId |-> <<"getUserPosts">>,
              parameters |-> <<IdBare>>,
              responses |-> (<<"2", "0", "0">> :> [description |-> <<"Success">>])]]

\* A path item that declares put before get; neither can be requested
AvatarPath == <<"/users/", "{", "id", "}", "/avatar">>

AvatarItem ==
    [declared |-> <<"put", "get">>,
     put |-> [operationId |-> <<"putAvatar">>,
              parameters |-> <<IdBare>>,
              responses |-> (<<"2", "0", "0">> :> [description |-> <<"Success">>])],
     get |-> [operationId |-> <<"getAvatar">>,
              parameters |-> <<IdBare>>,
              responses |-> (<<"2", "0", "0">> :> [description |-> <<"Success">>])]]

\* A parameters list with an empty entry, as YAML's "parameters: [~]" gives
ReportsPath == <<"/reports">>

ReportsItem ==
    [get |-> [operationId |-> <<"getReports">>,
              parameters |-> <<Null>>,
              responses |-> (<<"2", "0", "0">> :> [description |-> <<"Success">>])]]

HealthItem ==
    [options |-> [operationId |-> <<"healthOptions">>,
                  responses |-> (<<"2", "0", "0">> :> [description |-> <<"Success">>])]]

PathCatalog ==
    {[path |-> UsersPath, item |-> UsersItem],
     [path |-> UserByIdPath, item |-> UserByIdItem],
     [path |-> UserPostsPath, item |-> UserPostsItem],
     [path |-> HealthPath, item |-> HealthItem],
     [path |-> ReportsPath, item |-> ReportsItem],
     [path |-> AvatarPath, item |-> AvatarItem]}

\* How many paths a document has at most
MaxPaths == 2

\* The paths objects: up to MaxPaths entries of the catalog, in any order, or
\* none
PathLists ==
    {paths \in UNION {[1..n -> PathCatalog] : n \in 0..MaxPaths} :
        \A i, j \in DOMAIN paths : i # j => paths[i].path # paths[j].path}

\* What dereference may yield: a document with paths, one without, an error
Documents ==
    {[openapi |-> <<"3.0.3">>, paths |-> paths] : paths \in PathLists}
    \cup {[openapi |-> <<"3.0.3">>],
          [derefError |-> <<"Error opening file ", "ENOENT", ": no such file or directory">>]}

EndpointLists ==
    {Undefined, [list |-> <<>>], [list |-> <<UserPostsPath>>],
     [list |-> <<UserByIdPath, UsersPath>>]}

BaseUrls ==
    {<<"http:", "/", "/", "localhost:3000">>, <<"http:", "/", "/", "localhost:3000", "/">>}

----------------------------------------------------------------------------
(* Steps of validate().  JavaScript runs each stretch of code between two    *)
(* awaits without interruption, so each stretch is one action.               *)

\* How long a call may take, by Date.now()
MaxElapsed == 12

Elapsed == {0, MaxElapsed}

\* The errors axios may reject with: a refused connection, a timeout, and an
\* error that is no AxiosError.
TransportErrors ==
    {[isAxiosError |-> TRUE, code |-> "ECONNREFUSED",
      message |-> <<"connect ECONNREFUSED 127.0.0.1:3000">>],
     [isAxiosError |-> TRUE, code |-> "ECONNABORTED",
      message |-> <<"timeout of 5000ms exceeded">>],
     [isAxiosError |-> FALSE, code |-> "ECONNREFUSED",
      message |-> <<"Connection refused">>]}

\* In a repetition the transport is unchanged: it gives each call the answer
\* it gave the call of the same position before.
SameAnswer(answer) ==
    IF run = 1 THEN TRUE
    ELSE Len(answers) < Len(earlier.answers) /\ earlier.answers[Len(answers) + 1] = answer

\* await SwaggerParser.dereference(specPath), then the check of api.paths
Dereference ==
    /\ pc = "start"
    /\ IF Has(api, "derefError")
       THEN results' = <<SyntheticVerdict(api.derefError)>> /\ pc' = "done"
       ELSE IF ~Has(api, "paths")
       THEN /\ results' = <<SyntheticVerdict(<<"No paths defined in specification">>)>>
            /\ pc' = "done"
       ELSE results' = results /\ pc' = "walk"
    /\ UNCHANGED <<api, endpoints, validatorOptions, self, transport, opIdx, inflight, calls, answers,
                   run, earlier, process>>

\* testEndpoint up to its return for a skip, or up to await axios(config), or
\* up to an error that validate's catch turns into its only verdict
TestEndpoint ==
    /\ pc = "walk"
    /\ opIdx <= Len(OperationsToTest)
    /\ LET op       == OperationsToTest[opIdx]
           resolved == resolvePath(op.path, op.operation, op.pathItem)
           thrown   == ThrownBeforeRequest(op.path, op.operation, op.pathItem)
       IN IF Has(thrown, "message")
          THEN /\ results' = <<SyntheticVerdict(thrown.message)>>
               /\ pc' = "done"
               /\ UNCHANGED <<opIdx, inflight, calls>>
          ELSE IF resolved.skipped
          THEN /\ results' = Append(results,
                                    SkippedVerdict(op.path, op.method, resolved.skipReason))
               /\ opIdx' = opIdx + 1
               /\ UNCHANGED <<pc, inflight, calls>>
          ELSE LET config == RequestConfig(op.method, self.baseUrl \o resolved.resolvedPath,
                                           op.operation, op.pathItem)
               IN /\ inflight' = config
                  /\ calls' = Append(calls, [op |-> opIdx, config |-> config])
                  /\ pc' = "await"
                  /\ UNCHANGED <<results, opIdx>>
    /\ UNCHANGED <<api, endpoints, validatorOptions, self, transport, answers, run, earlier, process>>

\* axios resolves: the rest of testEndpoint's try block, and results.push
AxiosResolves ==
    /\ pc = "await"
    /\ \E response \in ServerResponses(transport), responseTime \in Elapsed :
         LET op == OperationsToTest[opIdx] IN
         /\ SameAnswer([response |-> response])
         /\ results' = Append(results, ResponseVerdict(op.path, op.method, response,
                                                       op.operation, responseTime))
         /\ answers' = Append(answers, [response |-> response])
    /\ pc' = "walk"
    /\ opIdx' = opIdx + 1
    /\ inflight' = Undefined
    /\ UNCHANGED <<api, endpoints, validatorOptions, self, transport, calls, run, earlier, process>>

\* A catch that tries the first rejected request of a walk once more.
AxiosRejectsRetry ==
    /\ pc = "await"
    /\ \E error \in TransportErrors, responseTime \in Elapsed :
         LET op == OperationsToTest[opIdx] IN
         /\ SameAnswer([error |-> error])
         /\ answers' = Append(answers, [error |-> error])
         /\ IF Len(answers) = 0
            THEN results' = results /\ opIdx' = opIdx
            ELSE /\ results' = Append(results,
                                      FailureVerdict(op.path, op.method, error, responseTime))
                 /\ opIdx' = opIdx + 1
    /\ pc' = "walk"
    /\ inflight' = Undefined
    /\ UNCHANGED <<api, endpoints, validatorOptions, self, transport, calls, run, earlier, process>>

\* axios rejects: testEndpoint's catch block, and results.push
AxiosRejects ==
    /\ pc = "await"
    /\ \E error \in TransportErrors, responseTime \in Elapsed :
         LET op == OperationsToTest[opIdx] IN
         /\ SameAnswer([error |-> error])
         /\ results' = Append(results, FailureVerdict(op.path, op.method, error, responseTime))
         /\ answers' = Append(answers, [error |-> error])
    /\ pc' = "walk"
    /\ opIdx' = opIdx + 1
    /\ inflight' = Undefined
    /\ UNCHANGED <<api, endpoints, validatorOptions, self, transport, calls, run, earlier, process>>

\* return results
Return ==
    /\ pc = "walk"
    /\ opIdx > Len(OperationsToTest)
    /\ pc' = "done"
    /\ UNCHANGED <<api, endpoints, validatorOptions, self, transport, opIdx, inflight, calls, answers, results,
                   run, earlier, process>>

\* How many requests a walk may have made for its repetition to be followed
MaxRepeatedCalls == 1

\* A repetition that goes on with the results array of the first call.
ValidateAgainKeepingResults ==
    /\ pc = "done"
    /\ command = "library"
    /\ run = 1
    /\ Len(calls) <= MaxRepeatedCalls
    /\ run' = 2
    /\ earlier' = [results |-> results, answers |-> answers]
    /\ pc' = "start"
    /\ opIdx' = 1
    /\ calls' = <<>>
    /\ answers' = <<>>
    /\ UNCHANGED <<api, endpoints, validatorOptions, self, transport, inflight, results, process>>

\* validate is called once more, with the same arguments, on the same validator
ValidateAgain ==
    /\ pc = "done"
    /\ command = "library"
    /\ run = 1
    /\ Len(calls) <= MaxRepeatedCalls
    /\ run' = 2
    /\ earlier' = [results |-> results, answers |-> answers]
    /\ pc' = "start"
    /\ opIdx' = 1
    /\ calls' = <<>>
    /\ answers' = <<>>
    /\ results' = <<>>
    /\ UNCHANGED <<api, endpoints, validatorOptions, self, transport, inflight, process>>

----------------------------------------------------------------------------
(* SpecValidator (src/src/validators/spec-validator.ts)                      *)

\* String.prototype.startsWith and includes, for a word that is a chunk
StartsWith(s, word) == Len(s) > 0 /\ s[1] = word

StringIncludes(s, word) == \E i \in DOMAIN s : s[i] = word

\* method.toUpperCase(), for the methods looked up in a path item
ToUpperCase(method) ==
    CASE method = "get" -> "GET"
      [] method = "post" -> "POST"
      [] method = "put" -> "PUT"
      [] method = "patch" -> "PATCH"
      [] method = "delete" -> "DELETE"
      [] method = "options" -> "OPTIONS"
      [] method = "head" -> "HEAD"

\* !x for a member that holds a text, when present
Falsy(o, f) == ~Has(o, f) \/ Len(o[f]) = 0

\* message.match(/"\$ref":\s*"([^"]+)"/): where the quoted pointer stands in
\* the message, or 0.  The quotes, the colon and the blank are chunks.
RefMatch(message) ==
    LET at(i) == IF i \in DOMAIN message THEN message[i] ELSE ""
        hits == {i \in DOMAIN message :
                    /\ at(i) = "\"" /\ at(i + 1) = "$ref" /\ at(i + 2) = "\"" /\ at(i + 3) = ":"
                    /\ LET q == IF at(i + 4) = " " THEN i + 5 ELSE i + 4
                       IN at(q) = "\"" /\ at(q + 1) \notin {"\"", ""} /\ at(q + 2) = "\""}
    IN IF hits = {} THEN 0
       ELSE LET i == CHOOSE h \in hits : \A g \in hits : h <= g
            IN IF at(i + 4) = " " THEN i + 6 ELSE i + 5

parseRefError(error) ==
    LET message == error.message IN
    IF StringIncludes(message, "$ref")
    THEN LET refMatch == RefMatch(message)
             pointer  == IF refMatch # 0 THEN <<message[refMatch]>> ELSE <<"unknown">>
         IN [type |-> "ref-error",
             message |-> <<"Failed to resolve ", "$ref", " pointer: ">> \o pointer,
             path |-> pointer,
             details |-> message]
    ELSE IF StringIncludes(message, "not a valid") \/ StringIncludes(message, "invalid")
    THEN [type |-> "validation-error", message |-> <<"Invalid OpenAPI specification">>,
          details |-> message]
    ELSE [type |-> "ref-error",
          message |-> <<"Failed to resolve references in specification">>,
          details |-> message]

\* The error parseValidationError makes of one line of the message; the
\* quoted field name is not kept
LineError(line) ==
    IF StringIncludes(line, "required") \/ StringIncludes(line, "must have")
    THEN [type |-> "missing-field", message |-> line]
    ELSE IF StringIncludes(line, "type") \/ StringIncludes(line, "should be")
    THEN [type |-> "invalid-type", message |-> line]
    ELSE IF StringIncludes(line, "syntax") \/ StringIncludes(line, "parse")
            \/ StringIncludes(line, "unexpected")
    THEN [type |-> "syntax-error", message |-> line]
    ELSE [type |-> "validation-error", message |-> line]

\* An error message is given by its lines; a blank line has no chunk
JoinLines(lines) ==
    IF Len(lines) = 0 THEN <<>>
    ELSE lines[1] \o Flatten([i \in 1..(Len(lines) - 1) |-> <<"\n">> \o lines[i + 1]])

parseValidationError(error) ==
    LET lines  == SelectSeq(error.lines, LAMBDA line : Len(line) > 0)
        errors == [i \in 1..Len(lines) |-> LineError(lines[i])]
    IN IF Len(errors) = 0
       THEN <<[type |-> "validation-error", message |-> JoinLines(error.lines)]>>
       ELSE errors

parseGenericError(error) ==
    IF StringIncludes(error.message, "YAML") \/ StringIncludes(error.message, "JSON")
    THEN [type |-> "syntax-error", message |-> <<"Invalid file syntax">>,
          details |-> error.message]
    ELSE [type |-> "unknown", message |-> error.message]

\* The methods SpecValidator looks up in a path item
LintMethods == <<"get", "post", "put", "patch", "delete", "options", "head">>

\* The operations of a document in the order the loops of SpecValidator meet them
LintOperations(document) ==
    IF ~Has(document, "paths") THEN <<>>
    ELSE Flatten([i \in 1..Len(document.paths) |->
            LET entry == document.paths[i]
                found == SelectSeq(LintMethods, LAMBDA method : Has(entry.item, method))
            IN [j \in 1..Len(found) |->
                  [path |-> entry.path, method |-> found[j],
                   operation |-> entry.item[found[j]]]]])

OperationName(op) == <<ToUpperCase(op.method), " ">> \o op.path

\* paths.<path>.<method> in the path of an error
OperationPointer(op) == <<"paths.">> \o op.path \o <<".", op.method>>

\* What checkRequiredFields pushes for the parameters of one operation; a
\* null entry makes reading p.name throw
ParameterErrors(op) ==
    IF ~Has(op.operation, "parameters") THEN <<>>
    ELSE LET parameters == op.operation.parameters
             index(i)   == NatToString(i - 1)
         IN Flatten([i \in 1..Len(parameters) |->
               IF IsNull(parameters[i]) THEN <<>>
               ELSE (IF Falsy(parameters[i], "name")
                     THEN <<[type |-> "missing-field",
                             message |-> <<"Missing ", "required", " field: name for parameter ">>
                                         \o index(i) \o <<" in ">> \o OperationName(op),
                             path |-> OperationPointer(op) \o <<".parameters[">> \o index(i)
                                      \o <<"].name">>]>>
                     ELSE <<>>)
                    \o (IF ~Has(parameters[i], "in")
                        THEN <<[type |-> "missing-field",
                                message |-> <<"Missing ", "required", " field: in for parameter ">>
                                            \o index(i) \o <<" in ">> \o OperationName(op),
                                path |-> OperationPointer(op) \o <<".parameters[">> \o index(i)
                                         \o <<"].in">>]>>
                        ELSE <<>>)])

HasNullParameter(op) ==
    /\ Has(op.operation, "parameters")
    /\ \E i \in DOMAIN op.operation.parameters : IsNull(op.operation.parameters[i])

checkRequiredFields(document) ==
    LET operations == LintOperations(document)
        topLevel ==
            (IF ~Has(document, "info")
             THEN <<[type |-> "missing-field",
                     message |-> <<"Missing ", "required", " field: info">>,
                     path |-> <<"info">>]>>
             ELSE (IF Falsy(document.info, "title")
                   THEN <<[type |-> "missing-field",
                           message |-> <<"Missing ", "required", " field: info.title">>,
                           path |-> <<"info.title">>]>>
                   ELSE <<>>)
                  \o (IF Falsy(document.info, "version")
                      THEN <<[type |-> "missing-field",
                              message |-> <<"Missing ", "required", " field: info.version">>,
                              path |-> <<"info.version">>]>>
                      ELSE <<>>))
            \o (IF ~(Has(document, "openapi") \/ Has(document, "swagger"))
                THEN <<[type |-> "missing-field",
                        message |-> <<"Missing ", "required",
                                      " field: openapi (or swagger for v2)">>,
                        path |-> <<"openapi">>]>>
                ELSE <<>>)
        ofOperation(op) ==
            (IF ~Has(op.operation, "responses")
             THEN <<[type |-> "missing-field",
                     message |-> <<"Missing ", "required", " field: responses for ">>
                                 \o OperationName(op),
                     path |-> OperationPointer(op) \o <<".responses">>]>>
             ELSE <<>>)
            \o ParameterErrors(op)
    IN IF \E i \in DOMAIN operations : HasNullParameter(operations[i])
       THEN [threw |-> <<"Cannot read properties of null (reading 'name')">>]
       ELSE [errors |-> topLevel
                        \o Flatten([i \in 1..Len(operations) |-> ofOperation(operations[i])])]

\* extractSpecInfo, which reads api.info.title whether or not there is an info
extractSpecInfo(document) ==
    IF ~Has(document, "info")
    THEN [threw |-> <<"Cannot read properties of undefined (reading 'title')">>]
    ELSE [info |->
            [m \in {"title", "version"} \cap DOMAIN document.info |-> document.info[m]]
            @@ (IF Has(document, "openapi") THEN [openApiVersion |-> document.openapi]
                ELSE IF Has(document, "swagger")
                THEN [openApiVersion |-> <<"Swagger ">> \o document.swagger]
                ELSE <<>>)
            @@ (IF Has(document, "paths") THEN [pathCount |-> Len(document.paths)] ELSE <<>>)
            @@ (IF Has(document, "components") /\ Has(document.components, "schemas")
                THEN [schemaCount |-> Len(document.components.schemas)]
                ELSE <<>>)]

performAdditionalChecks(document) ==
    LET operations == LintOperations(document)
        ofOperation(op) ==
            (IF Falsy(op.operation, "operationId")
             THEN <<<<"Missing operationId for ">> \o OperationName(op)>>
             ELSE <<>>)
            \o (IF Falsy(op.operation, "summary") /\ Falsy(op.operation, "description")
                THEN <<<<"Missing summary/description for ">> \o OperationName(op)>>
                ELSE <<>>)
        unanswered(op) ==
            IF ~Has(op.operation, "responses") \/ DOMAIN op.operation.responses = {}
            THEN <<<<"No responses defined for ">> \o OperationName(op)>>
            ELSE <<>>
    IN [warnings |->
            (IF ~Has(document, "paths") \/ Len(document.paths) = 0
             THEN <<<<"No paths defined in the specification">>>>
             ELSE <<>>)
            \o (IF Falsy(document.info, "description")
                THEN <<<<"Missing API description">>>>
                ELSE <<>>)
            \o Flatten([i \in 1..Len(operations) |-> ofOperation(operations[i])]),
        errors |->
            Flatten([i \in 1..Len(operations) |-> unanswered(operations[i])])
            \o (IF /\ Has(document, "components")
                   /\ Has(document, "security") /\ Len(document.security) > 0
                   /\ ~Has(document.components, "securitySchemes")
                THEN <<<<"Security requirements defined but no security schemes found">>>>
                ELSE <<>>)]

\* A ValidationResult: errors and warnings are undefined when empty, info
\* when there is none
ValidationResult(valid, errors, warnings, info) ==
    [valid |-> valid]
    @@ (IF Len(errors) > 0 THEN [errors |-> errors] ELSE <<>>)
    @@ (IF Len(warnings) > 0 THEN [warnings |-> warnings] ELSE <<>>)
    @@ (IF IsUndefined(info) THEN <<>> ELSE [info |-> info])

\* A strict mode that adds no error.
StrictErrorsNever(isStrict, messages) == <<>>

\* Strict errors whatever the mode.
StrictErrorsAlways(isStrict, messages) ==
    [i \in 1..Len(messages) |-> [type |-> "warning-as-error", message |-> messages[i]]]

\* What validate pushes for the errors of the additional checks
StrictErrors(isStrict, messages) ==
    IF isStrict
    THEN [i \in 1..Len(messages) |-> [type |-> "warning-as-error", message |-> messages[i]]]
    ELSE <<>>

\* validate's return when SwaggerParser.dereference rejects
RefFailure(error) == ValidationResult(FALSE, <<parseRefError(error)>>, <<>>, Undefined)

\* validate from the end of await SwaggerParser.validate to its return;
\* rejected is what SwaggerParser.validate rejected with, or Undefined
ValidateSteps(document, isStrict, rejected) ==
    LET errors2  == IF IsUndefined(rejected) THEN <<>> ELSE parseValidationError(rejected)
        required == checkRequiredFields(document)
        info     == extractSpecInfo(document)
        caught(message) ==
            ValidationResult(FALSE, Append(errors2, parseGenericError([message |-> message])),
                             <<>>, Undefined)
    IN IF Has(required, "threw") THEN caught(required.threw)
       ELSE IF Has(info, "threw") THEN caught(info.threw)
       ELSE LET additionalChecks == performAdditionalChecks(document)
                errors == errors2 \o required.errors
                          \o StrictErrors(isStrict, additionalChecks.errors)
            IN ValidationResult(Len(errors) = 0, errors, additionalChecks.warnings, info.info)

----------------------------------------------------------------------------
(* The commands of the CLI: loadSpec, a validator, process.exit              *)

SUCCESS == 0

VALIDATION_FAILED == 1

FILE_NOT_FOUND == 2

\* The path the command is given
SpecPath == <<"./api/openapi.yaml">>

\* A file loadSpec reads and parses
Loaded == [loaded |-> TRUE]

\* What readFile rejects with when there is no file, when the file may not be
\* read and when the path is a directory, and what yaml.load throws
LoadFailures ==
    {[code |-> "ENOENT",
      message |-> <<"ENOENT", ": no such file or directory, open '">> \o SpecPath \o <<"'">>],
     [code |-> "EACCES",
      message |-> <<"EACCES: permission denied, open '">> \o SpecPath \o <<"'">>],
     [code |-> "EISDIR", message |-> <<"EISDIR: illegal operation on a directory, read">>],
     [message |-> <<"bad indentation of a mapping entry (3:5)">>]}

\* A file that loadSpec cannot load cannot be dereferenced either
FilesOf(document) == IF Has(document, "derefError") THEN {Loaded} \cup LoadFailures ELSE {Loaded}

\* loadSpec: the parsed content is used by no validator, so only the error is kept
loadSpec(specPath, found) ==
    IF Has(found, "loaded") THEN [loaded |-> TRUE]
    ELSE IF Has(found, "code") /\ found.code = "ENOENT"
    THEN [threw |-> <<"File ", "not found", ": ">> \o specPath]
    ELSE [threw |-> <<"Failed to load spec file: ">> \o found.message]

\* The catch block of a command: the code it exits with for an Error
CommandCatch(message) ==
    IF StringIncludes(message, "ENOENT") \/ StringIncludes(message, "not found")
    THEN FILE_NOT_FOUND
    ELSE VALIDATION_FAILED

\* A test for a skip that asks for a failed verdict with status code 0.
isSkippedByStatus(result) == Has(result, "statusCode") /\ result.statusCode = 0 /\ ~result.valid

\* validateApiCommand's isSkipped
isSkipped(result) == Has(result, "error") /\ StartsWith(result.error, "Skipped")

\* The counter validateApiCommand's loop increments for a verdict
CountedAs(result) ==
    IF isSkipped(result) THEN "skipped"
    ELSE IF result.valid THEN "passed"
    ELSE "failed"

Count(verdicts, counter) ==
    Cardinality({k \in DOMAIN verdicts : CountedAs(verdicts[k]) = counter})

\* await loadSpec(specPath) in a command, and the catch block if it throws
LoadSpec ==
    /\ pc = "load"
    /\ LET loaded == loadSpec(SpecPath, file) IN
       IF Has(loaded, "threw")
       THEN exit' = [code |-> CommandCatch(loaded.threw)] /\ pc' = "exited"
       ELSE exit' = exit /\ pc' = (IF command = "validate-spec" THEN "lint" ELSE "start")
    /\ UNCHANGED <<api, endpoints, validatorOptions, self, transport, opIdx, inflight, calls, answers, results,
                   run, earlier, command, file, strict, schemaCheck, lint>>

\* validateApiCommand after await validator.validate: the loop over the
\* results, the summary and process.exit
ExitApi ==
    /\ pc = "done"
    /\ command = "validate-api"
    /\ LET failedCount == Count(results, "failed") IN
       exit' = [code |-> IF failedCount = 0 THEN SUCCESS ELSE VALIDATION_FAILED,
                passedCount |-> Count(results, "passed"),
                failedCount |-> failedCount,
                skippedCount |-> Count(results, "skipped")]
    /\ pc' = "exited"
    /\ UNCHANGED <<api, endpoints, validatorOptions, self, transport, opIdx, inflight, calls, answers, results,
                   run, earlier, command, file, strict, schemaCheck, lint>>

\* await SwaggerParser.dereference(specPath) in SpecValidator.validate, and
\* the return if it rejects
SpecDereference ==
    /\ pc = "lint"
    /\ IF Has(api, "derefError")
       THEN lint' = RefFailure([message |-> api.derefError]) /\ pc' = "lint-done"
       ELSE lint' = lint /\ pc' = "lint-validate"
    /\ UNCHANGED <<api, endpoints, validatorOptions, self, transport, opIdx, inflight, calls, answers, results,
                   run, earlier, command, file, strict, schemaCheck, exit>>

\* await SwaggerParser.validate(specPath), then validate's steps 3 to 5 and
\* its return, or its outer catch
SpecValidate ==
    /\ pc = "lint-validate"
    /\ lint' = ValidateSteps(api, strict, schemaCheck)
    /\ pc' = "lint-done"
    /\ UNCHANGED <<api, endpoints, validatorOptions, self, transport, opIdx, inflight, calls, answers, results,
                   run, earlier, command, file, strict, schemaCheck, exit>>

\* validateSpecCommand after await validator.validate: process.exit
ExitSpec ==
    /\ pc = "lint-done"
    /\ exit' = [code |-> IF lint.valid THEN SUCCESS ELSE VALIDATION_FAILED]
    /\ pc' = "exited"
    /\ UNCHANGED <<api, endpoints, validatorOptions, self, transport, opIdx, inflight, calls, answers, results,
                   run, earlier, command, file, strict, schemaCheck, lint>>

\* Who runs the validator
Commands == {"library", "validate-api", "validate-spec"}

\* The endpoints argument a caller may give: the command splits its option at
\* the commas, which never yields an empty list
EndpointsOf(caller, lists) ==
    IF caller = "validate-api" THEN {e \in lists : e # [list |-> <<>>]}
    ELSE IF caller = "validate-spec" THEN {Undefined}
    ELSE lists

Next ==
    \/ Dereference \/ TestEndpoint \/ AxiosResolves \/ AxiosRejects \/ Return \/ ValidateAgain
    \/ LoadSpec \/ ExitApi
    \/ SpecDereference \/ SpecValidate \/ ExitSpec

----------------------------------------------------------------------------
(* Initial states *)

\* One operation with each choice of responses, a server that may answer with
\* any status, headers and body.
InitCheck ==
    /\ api \in {DocumentOf(UsersPath, [get |-> op]) : op \in CheckedOperations}
    /\ endpoints = Undefined
    /\ validatorOptions = LocalOptions
    /\ self = Constructor(validatorOptions)
    /\ transport = "any"
    /\ command \in Commands
    /\ file \in (IF command = "library" THEN {Loaded} ELSE FilesOf(api))
    /\ pc = (IF command = "library" THEN "start" ELSE "load")
    /\ opIdx = 1
    /\ inflight = Undefined
    /\ calls = <<>>
    /\ answers = <<>>
    /\ results = <<>>
    /\ run = 1
    /\ earlier = Undefined
    /\ strict = FALSE
    /\ schemaCheck = Undefined
    /\ lint = Undefined
    /\ exit = Undefined

SpecCheck == InitCheck /\ [][Next]_vars

\* One operation under one path template, with each choice of path-item and
\* operation parameters, and a base URL with or without a trailing slash.
InitResolve ==
    /\ api \in {DocumentOf(template,
                           WithParameters([get |-> ResolvedOperation(operationParameters)],
                                          pathItemParameters)) :
                  template \in Templates, pathItemParameters \in PathItemParameters,
                  operationParameters \in OperationParameters}
    /\ endpoints = Undefined
    /\ validatorOptions \in {[baseUrl |-> b] : b \in BaseUrls}
    /\ self = Constructor(validatorOptions)
    /\ transport = "plain"
    /\ command \in Commands
    /\ file \in (IF command = "library" THEN {Loaded} ELSE FilesOf(api))
    /\ pc = (IF command = "library" THEN "start" ELSE "load")
    /\ opIdx = 1
    /\ inflight = Undefined
    /\ calls = <<>>
    /\ answers = <<>>
    /\ results = <<>>
    /\ run = 1
    /\ earlier = Undefined
    /\ strict = FALSE
    /\ schemaCheck = Undefined
    /\ lint = Undefined
    /\ exit = Undefined

SpecResolve == InitResolve /\ [][Next]_vars

\* Any document, any endpoints argument, a server that answers 200 or 500 or
\* cannot be reached.
Init ==
    /\ api \in Documents
    /\ command \in Commands
    /\ endpoints \in EndpointsOf(command, EndpointLists)
    /\ validatorOptions = LocalOptions
    /\ self = Constructor(validatorOptions)
    /\ transport = "plain"
    /\ file \in (IF command = "library" THEN {Loaded} ELSE FilesOf(api))
    /\ pc = (IF command = "library" THEN "start" ELSE "load")
    /\ opIdx = 1
    /\ inflight = Undefined
    /\ calls = <<>>
    /\ answers = <<>>
    /\ results = <<>>
    /\ run = 1
    /\ earlier = Undefined
    /\ strict = FALSE
    /\ schemaCheck = Undefined
    /\ lint = Undefined
    /\ exit = Undefined

Spec == Init /\ [][Next]_vars

----------------------------------------------------------------------------
(* Documents for SpecValidator *)

\* The info objects: README.md's, one without description, one without title
Infos ==
    {[title |-> <<"Test API">>, version |-> <<"1.0.0">>, description |-> <<"A test API">>],
     [title |-> <<"Test API">>, version |-> <<"1.0.0">>],
     [version |-> <<"1.0.0">>]}

\* An operation with a summary and no operationId, whose responses are empty
OrdersPath == <<"/orders">>

OrdersItem == [get |-> [summary |-> <<"List orders">>, responses |-> EmptyMap]]

\* An operation that lacks nothing, with a parameter that lacks its name
StatusPath == <<"/status">>

StatusItem ==
    [get |-> [operationId |-> <<"getStatus">>, summary |-> <<"Status">>,
              responses |-> (<<"2", "0", "0">> :> [description |-> <<"Success">>])]]

SearchPath == <<"/search">>

SearchItem ==
    [get |-> [operationId |-> <<"search">>, description |-> <<"Search">>,
              parameters |-> <<[in |-> "query", schema |-> [type |-> "string"]]>>,
              responses |-> (<<"2", "0", "0">> :> [description |-> <<"Success">>])]]

LintPathLists ==
    {<<>>,
     <<[path |-> StatusPath, item |-> StatusItem]>>,
     <<[path |-> UsersPath, item |-> UsersItem]>>,
     <<[path |-> HealthPath, item |-> HealthItem]>>,
     <<[path |-> OrdersPath, item |-> OrdersItem]>>,
     <<[path |-> SearchPath, item |-> SearchItem]>>,
     <<[path |-> ReportsPath, item |-> ReportsItem]>>,
     <<[path |-> StatusPath, item |-> StatusItem], [path |-> OrdersPath, item |-> OrdersItem]>>}

\* What SwaggerParser.dereference rejects with: a pointer that leads nowhere,
\* a reference the message quotes, a file that is no API definition
DereferenceErrors ==
    {<<"Error resolving ", "$ref", " pointer ">> \o SpecPath
         \o <<"#/components/schemas/Missing. Token Missing does not exist.">>,
     <<"Cannot resolve ", "\"", "$ref", "\"", ":", " ", "\"", "#/components/schemas/Missing",
       "\"">>,
     SpecPath \o <<" is ", "not a valid", " Openapi API definition">>,
     <<"Error opening file ", "ENOENT", ": no such file or directory">>}

\* A document with a security requirement and no security scheme
SecuredDocument ==
    [openapi |-> <<"3.0.3">>,
     info |-> [title |-> <<"Test API">>, version |-> <<"1.0.0">>, description |-> <<"A test API">>],
     paths |-> <<[path |-> StatusPath, item |-> StatusItem]>>,
     components |-> [schemas |-> <<>>],
     security |-> <<[apiKey |-> <<>>]>>]

LintDocuments ==
    {[openapi |-> <<"3.0.3">>, info |-> info, paths |-> paths] :
        info \in Infos, paths \in LintPathLists}
    \cup {[openapi |-> <<"3.0.3">>, paths |-> paths] : paths \in LintPathLists}
    \cup {[openapi |-> <<"3.1.0">>, info |-> info] : info \in Infos}
    \cup {SecuredDocument}
    \cup {[derefError |-> message] : message \in DereferenceErrors}

\* What SwaggerParser.validate rejects with, if it does
SchemaChecks ==
    {Undefined,
     [lines |-> <<<<"Swagger schema validation failed.">>,
                  <<>>,
                  <<"#/info ", "must have", " ", "required", " property 'title'">>,
                  <<"#/paths/~1orders/get/responses must NOT have fewer than 1 properties">>>>]}

\* Any document and either mode for validate-spec; the same documents for
\* the callers of ApiValidator.
InitLint ==
    /\ api \in LintDocuments
    /\ command \in Commands
    /\ endpoints = Undefined
    /\ validatorOptions = LocalOptions
    /\ self = Constructor(validatorOptions)
    /\ transport = "plain"
    /\ file \in (IF command = "library" THEN {Loaded} ELSE FilesOf(api))
    /\ pc = (IF command = "library" THEN "start" ELSE "load")
    /\ opIdx = 1
    /\ inflight = Undefined
    /\ calls = <<>>
    /\ answers = <<>>
    /\ results = <<>>
    /\ run = 1
    /\ earlier = Undefined
    /\ strict \in (IF command = "validate-spec" THEN BOOLEAN ELSE {FALSE})
    /\ schemaCheck \in (IF command = "validate-spec" THEN SchemaChecks ELSE {Undefined})
    /\ lint = Undefined
    /\ exit = Undefined

SpecLint == InitLint /\ [][Next]_vars

----------------------------------------------------------------------------
(* Schemas for the example synthesizer *)

\* Where a dereferenced schema refers to itself, the object graph has a
\* cycle: Root stands for the schema object the media type holds.
Root == [circular |-> "#"]

IdProperty == [name |-> <<"id">>, schema |-> [type |-> "integer", minimum |-> 5]]

NameProperty == [name |-> <<"name">>, schema |-> [type |-> "string", minLength |-> 2]]

TagsProperty ==
    [name |-> <<"tags">>, schema |-> [type |-> "array", items |-> [type |-> "string"]]]

NickProperty ==
    [name |-> <<"nick">>, schema |-> [type |-> "string", example |-> Str(<<"Al">>)]]

AgeProperty == [name |-> <<"age">>, schema |-> [type |-> "integer", default |-> Num(30)]]

OwnerProperty ==
    [name |-> <<"owner">>,
     schema |-> [type |-> "object", required |-> <<<<"id">>>>,
                 properties |-> <<IdProperty, AgeProperty, NickProperty>>]]

StringSchemas ==
    {[type |-> "string"]}
    \cup {[type |-> "string", format |-> f] :
            f \in {"date", "date-time", "email", "uuid", "uri", "hostname"}}
    \cup {[type |-> "string", minLength |-> n] : n \in {0, 1, 3}}
    \cup {[type |-> "string", format |-> "email", minLength |-> 20],
          [type |-> "string", format |-> "hostname", minLength |-> 3]}

ScalarSchemas ==
    {[type |-> "integer"], [type |-> "integer", minimum |-> 0],
     [type |-> "integer", minimum |-> 5], [type |-> "number"],
     [type |-> "number", minimum |-> 2], [type |-> "boolean"], [type |-> "null"],
     [description |-> <<"Anything">>]}

\* Schemas with an example, a default or allowed values
ShortcutSchemas ==
    {[type |-> "integer", example |-> Num(7), default |-> Num(8), enum |-> <<Num(9)>>],
     [type |-> "integer", default |-> Num(8), enum |-> <<Num(9)>>],
     [type |-> "integer", enum |-> <<Num(9), Num(10)>>],
     [type |-> "integer", enum |-> <<>>],
     [type |-> "string", example |-> Null],
     [type |-> "string", enum |-> <<Str(<<"asc">>), Str(<<"desc">>)>>, minLength |-> 4],
     [enum |-> <<Str(<<"a">>), Num(1)>>, type |-> "integer"]}

ArraySchemas ==
    {[type |-> "array"]}
    \cup {[type |-> "array", items |-> items] :
            items \in {[type |-> "integer", minimum |-> 5], [type |-> "string", minLength |-> 3],
                       [type |-> "array", items |-> [type |-> "boolean"]],
                       [description |-> <<"Anything">>],
                       [type |-> "object", required |-> <<<<"id">>>>,
                        properties |-> <<IdProperty, NameProperty>>]}}

ObjectSchemas ==
    {[type |-> "object"],
     [type |-> "object", required |-> <<<<"id">>>>],
     [type |-> "object", properties |-> <<IdProperty, NameProperty>>],
     [properties |-> <<IdProperty>>, required |-> <<<<"id">>>>],
     [type |-> "object", required |-> <<<<"name">>, <<"email">>>>,
      properties |-> <<IdProperty, NameProperty>>],
     [type |-> "object", required |-> <<<<"id">>, <<"tags">>>>,
      properties |-> <<IdProperty, NameProperty, TagsProperty, NickProperty, AgeProperty>>],
     [type |-> "object", required |-> <<<<"owner">>>>,
      properties |-> <<NameProperty, OwnerProperty>>],
     [type |-> "object", properties |-> <<NameProperty, OwnerProperty, NickProperty>>]}

\* Schemas that refer to themselves: a list node with an optional successor,
\* a tree node with required children
CircularSchemas ==
    {[type |-> "object", required |-> <<<<"id">>>>,
      properties |-> <<IdProperty, [name |-> <<"next">>, schema |-> Root]>>],
     [type |-> "object", required |-> <<<<"id">>, <<"children">>>>,
      properties |-> <<IdProperty,
                       [name |-> <<"children">>,
                        schema |-> [type |-> "array", items |-> Root]]>>],
     [type |-> "object", required |-> <<<<"children">>>>, example |-> Obj(<<>>, <<>>),
      properties |-> <<[name |-> <<"children">>,
                        schema |-> [type |-> "array", items |-> Root]]>>]}

Schemas ==
    StringSchemas \cup ScalarSchemas \cup ShortcutSchemas \cup ArraySchemas \cup ObjectSchemas
    \cup CircularSchemas

\* A post operation whose JSON request body is described by a schema alone
BodyOperation(schema) ==
    [operationId |-> <<"createUser">>,
     requestBody |-> [required |-> TRUE,
                      content |-> ("application/json" :> [schema |-> schema])],
     responses |-> (<<"2", "0", "1">> :> [description |-> <<"User created">>])]

\* One operation whose request body is synthesized from each schema.
InitSynth ==
    /\ api \in {DocumentOf(UsersPath, [post |-> BodyOperation(schema)]) : schema \in Schemas}
    /\ command \in Commands
    /\ endpoints = Undefined
    /\ validatorOptions = LocalOptions
    /\ self = Constructor(validatorOptions)
    /\ transport = "plain"
    /\ file \in (IF command = "library" THEN {Loaded} ELSE FilesOf(api))
    /\ pc = (IF command = "library" THEN "start" ELSE "load")
    /\ opIdx = 1
    /\ inflight = Undefined
    /\ calls = <<>>
    /\ answers = <<>>
    /\ results = <<>>
    /\ run = 1
    /\ earlier = Undefined
    /\ strict = FALSE
    /\ schemaCheck = Undefined
    /\ lint = Undefined
    /\ exit = Undefined

SpecSynth == InitSynth /\ [][Next]_vars

----------------------------------------------------------------------------
(* Operations for the request builder *)

\* Query parameter declarations
PageQuery ==
    [name |-> <<"page">>, in |-> "query", required |-> TRUE, schema |-> [type |-> "integer"],
     example |-> Num(2)]

\* Optional, no example of its own: the default of its schema is not looked at
LimitQuery ==
    [name |-> <<"limit">>, in |-> "query", required |-> FALSE,
     schema |-> [type |-> "integer", default |-> Num(20)]]

SortQuery ==
    [name |-> <<"sort">>, in |-> "query", schema |-> [type |-> "string"],
     example |-> Str(<<"name">>)]

\* Required, its value comes from its schema
FilterQuery ==
    [name |-> <<"filter">>, in |-> "query", required |-> TRUE,
     schema |-> [type |-> "string", enum |-> <<Str(<<"active">>), Str(<<"all">>)>>]]

\* Required, with nothing a value could come from
TokenQuery == [name |-> <<"token">>, in |-> "query", required |-> TRUE]

\* Required, with a schema that names no type
CursorQuery ==
    [name |-> <<"cursor">>, in |-> "query", required |-> TRUE,
     schema |-> [description |-> <<"Opaque cursor">>]]

TraceHeader ==
    [name |-> <<"X-Trace">>, in |-> "header", required |-> TRUE, schema |-> [type |-> "string"],
     example |-> Str(<<"abc">>)]

\* The parameters of the path item and of the operation
ParameterCases ==
    {[item |-> <<>>,          operation |-> <<>>],
     [item |-> <<>>,          operation |-> <<PageQuery, LimitQuery>>],
     [item |-> <<SortQuery>>, operation |-> <<TokenQuery, TraceHeader>>],
     [item |-> <<>>,          operation |-> <<FilterQuery>>],
     [item |-> <<PageQuery>>, operation |-> <<CursorQuery>>],
     [item |-> <<>>,          operation |-> <<TokenQuery, LimitQuery>>]}

\* Media type objects
JohnExample == Obj(<<<<"name">>>>, <<Str(<<"John">>)>>)

JaneExample == Obj(<<<<"name">>>>, <<Str(<<"Jane">>)>>)

PersonSchema ==
    [type |-> "object", required |-> <<<<"name">>>>,
     properties |-> <<[name |-> <<"name">>, schema |-> [type |-> "string"]],
                      [name |-> <<"age">>, schema |-> [type |-> "integer"]]>>]

MediaExample == [example |-> JohnExample, schema |-> PersonSchema]

MediaExamples ==
    [examples |-> <<[summary |-> <<"first">>, value |-> JaneExample],
                    [summary |-> <<"second">>, value |-> JohnExample]>>,
     schema |-> PersonSchema]

MediaBoth == [example |-> JohnExample, examples |-> <<[value |-> JaneExample]>>]

\* The first entry of examples has no value member
MediaExternal ==
    [examples |-> <<[externalValue |-> <<"https:", "/", "/", "example.com", "/", "user.json">>],
                    [value |-> JohnExample]>>,
     schema |-> [type |-> "integer", minimum |-> 3]]

MediaSchema == [schema |-> PersonSchema]

MediaBare == [encoding |-> EmptyMap]

\* The content of a request body
Contents ==
    {("application/json" :> media) :
        media \in {MediaExample, MediaExamples, MediaBoth, MediaExternal, MediaSchema, MediaBare}}
    \cup {("application/x-www-form-urlencoded" :> media) : media \in {MediaExamples, MediaSchema}}
    \cup {("application/json" :> MediaSchema) @@ ("application/x-www-form-urlencoded" :> MediaExample),
          ("application/x-www-form-urlencoded" :> MediaExample) @@ ("text/plain" :> MediaExamples),
          ("text/plain" :> MediaExample),
          ("multipart/form-data" :> MediaSchema) @@ ("application/xml" :> MediaExample)}

\* What an operation has as requestBody (the empty sequence: no such member)
RequestBodies ==
    {<<>>, [requestBody |-> [description |-> <<"A user">>]]}
    \cup {[requestBody |-> [required |-> TRUE, content |-> content]] : content \in Contents}

RequestOperation(body, parameters) ==
    body
    @@ (IF parameters # <<>> THEN [parameters |-> parameters] ELSE <<>>)
    @@ [operationId |-> <<"touchUser">>,
        responses |-> (<<"2", "0", "0">> :> [description |-> <<"OK">>])]

RequestItem(method, body, case) ==
    (method :> RequestOperation(body, case.operation))
    @@ (IF case.item # <<>> THEN [parameters |-> case.item] ELSE <<>>)

\* The headers option of the caller (the empty sequence: no such option)
CallerHeaders ==
    {<<>>,
     [headers |-> ("Authorization" :> <<"Bearer ", "token123">>)
                  @@ ("X-Custom-Header" :> <<"custom-value">>)],
     [headers |-> ("Accept" :> <<"text/html">>)],
     [headers |-> ("Content-Type" :> <<"text/plain">>) @@ ("X-API-Key" :> <<"k">>)]}

\* One operation over every method, request body, parameter list and caller
\* headers.
InitRequest ==
    /\ api \in {DocumentOf(UsersPath, RequestItem(method, body, case)) :
                  method \in {Methods[i] : i \in DOMAIN Methods}, body \in RequestBodies, case \in ParameterCases}
    /\ command \in Commands
    /\ endpoints = Undefined
    /\ validatorOptions \in {h @@ LocalOptions : h \in CallerHeaders}
    /\ self = Constructor(validatorOptions)
    /\ transport = "plain"
    /\ file \in (IF command = "library" THEN {Loaded} ELSE FilesOf(api))
    /\ pc = (IF command = "library" THEN "start" ELSE "load")
    /\ opIdx = 1
    /\ inflight = Undefined
    /\ calls = <<>>
    /\ answers = <<>>
    /\ results = <<>>
    /\ run = 1
    /\ earlier = Undefined
    /\ strict = FALSE
    /\ schemaCheck = Undefined
    /\ lint = Undefined
    /\ exit = Undefined

SpecRequest == InitRequest /\ [][Next]_vars

----------------------------------------------------------------------------

(* What the claims speak of *)

Range(seq) == {seq[i] : i \in DOMAIN seq}

\* The calls axios answered with a response, the operation each was made
\* for, the response received and the verdict recorded for it.
Exchanges == {j \in DOMAIN answers : Has(answers[j], "response")}

OperationOf(j) == OperationsToTest[calls[j].op].operation

ReceivedIn(j) == answers[j].response

VerdictOf(j) == results[calls[j].op]

DetailsOf(verdict) == IF Has(verdict, "details") THEN verdict.details ELSE <<>>

DeclaredSelectors(operation) ==
    IF Has(operation, "responses") THEN DOMAIN operation.responses ELSE {}

\* The selectors a three-digit status may match, in priority order.
Candidates(status) ==
    <<<<Digits[(status \div 100) + 1], Digits[((status \div 10) % 10) + 1],
        Digits[(status % 10) + 1]>>,
      <<Digits[(status \div 100) + 1], "X", "X">>,
      <<"default">>>>

Hits(operation, status) ==
    {i \in 1..3 : Candidates(status)[i] \in DeclaredSelectors(operation)}

\* The declared response selected for a status that matches one.
Matched(operation, status) ==
    operation.responses[
        Candidates(status)[CHOOSE i \in Hits(operation, status) :
                               \A k \in Hits(operation, status) : i <= k]]

UnexpectedStatus(status) ==
    <<"Unexpected status code ">> \o Candidates(status)[1] \o <<" - not defined in spec">>

HeaderViolations(response, responseSpec) ==
    LET errors == validateResponseHeaders(response.headers, responseSpec).errors IN
    [i \in DOMAIN errors |->
        <<"Header '">> \o errors[i].header \o <<"': ">> \o errors[i].message]

BodyViolations(response, responseSpec) ==
    LET validation == validateResponseBody(response.data, responseSpec) IN
    IF Has(validation, "details") THEN validation.details ELSE <<>>

\* The JSON schema a response object declares, or Undefined
JsonSchemaOf(responseSpec) ==
    IF Has(responseSpec, "content") /\ Has(responseSpec.content, "application/json")
       /\ Has(responseSpec.content["application/json"], "schema")
    THEN responseSpec.content["application/json"].schema
    ELSE Undefined

IsBodyDetail(detail) == detail[1] = "Body "

IsHeaderDetail(detail) == detail[1] = "Header '"

\* The details of a kind, in the order they stand in
RECURSIVE BodyDetailsIn(_)
BodyDetailsIn(details) ==
    IF Len(details) = 0 THEN <<>>
    ELSE (IF IsBodyDetail(details[1]) THEN <<details[1]>> ELSE <<>>)
         \o BodyDetailsIn(Tail(details))

----------------------------------------------------------------------------
(* C1: the response spec a received status is checked against is the one of  *)
(* the exact selector if declared, else of the class wildcard '<digit>XX' if *)
(* declared, else of 'default' if declared, and no other: the header and     *)
(* body violations of the verdict are those of that one response spec.       *)
C1_SelectorPriority ==
    \A j \in Exchanges :
        LET operation == OperationOf(j)
            response  == ReceivedIn(j)
            used      == getResponseSpec(response.status, operation)
        IN IF Hits(operation, response.status) = {}
           THEN IsNull(used)
           ELSE /\ used = Matched(operation, response.status)
                /\ DetailsOf(VerdictOf(j))
                     = HeaderViolations(response, Matched(operation, response.status))
                       \o BodyViolations(response, Matched(operation, response.status))

\* Responses {404, 4XX, default} and status 403: the 4XX response is used,
\* whose required X-Request-Id header the response lacks.
C1_Witness ==
    \E j \in Exchanges :
        /\ DeclaredSelectors(OperationOf(j)) = {<<"4", "0", "4">>, <<"4", "X", "X">>, <<"default">>}
        /\ ReceivedIn(j).status = 403
        /\ DetailsOf(VerdictOf(j))
             = <<<<"Header '", "X-Request-Id", "': ", "Required header is missing">>>>

C3_AllViolations ==
    \A j \in Exchanges :
        LET operation == OperationOf(j)
            response  == ReceivedIn(j)
            verdict   == VerdictOf(j)
            status    == IF Has(operation, "responses") /\ Hits(operation, response.status) = {}
                         THEN <<UnexpectedStatus(response.status)>> ELSE <<>>
            others    == IF Hits(operation, response.status) = {} THEN <<>>
                         ELSE HeaderViolations(response, Matched(operation, response.status))
                              \o BodyViolations(response, Matched(operation, response.status))
        IN /\ verdict.valid <=> (status \o others = <<>>)
           /\ DetailsOf(verdict) = status \o others

\* A verdict with a header violation followed by body violations.
C3_Witness ==
    \E j \in Exchanges :
        LET details == DetailsOf(VerdictOf(j)) IN
        /\ ~VerdictOf(j).valid
        /\ Len(details) >= 3
        /\ IsHeaderDetail(details[1])
        /\ IsBodyDetail(details[Len(details) - 1])
        /\ IsBodyDetail(details[Len(details)])

\* The detail the code is to report for one error of the schema evaluator
BodyDetail(error) ==
    <<"Body ">> \o (IF error.instancePath = <<>> THEN <<"root">> ELSE error.instancePath)
    \o <<": ">> \o error.message

(* C4 as claimed: with a JSON schema on the matched response spec, an        *)
(* invalid body gives a failed verdict with error 'Response validation       *)
(* failed' and one 'Body <path or root>: <message>' detail per violation, a  *)
(* valid body gives a passed verdict with the received status code; without  *)
(* a JSON schema the body gives no violation.                                *)
C4_AsClaimed ==
    \A j \in Exchanges :
        LET operation == OperationOf(j)
            response  == ReceivedIn(j)
            verdict   == VerdictOf(j)
            bodyDetails == BodyDetailsIn(DetailsOf(verdict))
        IN IF Hits(operation, response.status) = {}
              \/ IsUndefined(JsonSchemaOf(Matched(operation, response.status)))
           THEN bodyDetails = <<>>
           ELSE LET errors == AjvValidate(JsonSchemaOf(Matched(operation, response.status)),
                                          response.data)
                IN IF errors # <<>>
                   THEN /\ ~verdict.valid
                        /\ Has(verdict, "error")
                        /\ verdict.error = <<"Response validation failed">>
                        /\ bodyDetails = [i \in DOMAIN errors |-> BodyDetail(errors[i])]
                   ELSE /\ verdict.valid
                        /\ verdict.statusCode = response.status

(* C4 (amended): as claimed, except that a valid body gives no body          *)
(* violation and a verdict with the received status code that is passed      *)
(* exactly when the header check of the matched response spec found no       *)
(* violation.                                                                *)
C4_BodyCheck ==
    \A j \in Exchanges :
        LET operation == OperationOf(j)
            response  == ReceivedIn(j)
            verdict   == VerdictOf(j)
            bodyDetails == BodyDetailsIn(DetailsOf(verdict))
        IN IF Hits(operation, response.status) = {}
              \/ IsUndefined(JsonSchemaOf(Matched(operation, response.status)))
           THEN bodyDetails = <<>>
           ELSE LET errors == AjvValidate(JsonSchemaOf(Matched(operation, response.status)),
                                          response.data)
                IN IF errors # <<>>
                   THEN /\ ~verdict.valid
                        /\ Has(verdict, "error")
                        /\ verdict.error = <<"Response validation failed">>
                        /\ bodyDetails = [i \in DOMAIN errors |-> BodyDetail(errors[i])]
                   ELSE /\ bodyDetails = <<>>
                        /\ verdict.statusCode = response.status
                        /\ verdict.valid
                             <=> HeaderViolations(response,
                                                  Matched(operation, response.status)) = <<>>

\* A body with a string id, and a second user without id, against the schema
\* of 200: two body details.
C4_Witness ==
    \E j \in Exchanges :
        /\ ~VerdictOf(j).valid
        /\ VerdictOf(j).error = <<"Response validation failed">>
        /\ BodyDetailsIn(DetailsOf(VerdictOf(j)))
             = <<<<"Body ", "/", "0", "/", "id", ": ", "must be ", "integer">>,
                 <<"Body ", "/", "1", ": ", "must have required property '", "id", "'">>>>

(* C5: for each header the matched response spec declares: required and not  *)
(* carried by the response gives the one violation 'Required header is       *)
(* missing' under the header's name; carried and with a schema, the value    *)
(* goes to the schema evaluator and its violations are reported under the    *)
(* header's name; not required and not carried gives no violation.           *)
C5_HeaderCheck ==
    \A j \in Exchanges :
        LET operation == OperationOf(j)
            response  == ReceivedIn(j)
            details   == DetailsOf(VerdictOf(j))
        IN (Hits(operation, response.status) # {}
            /\ Has(Matched(operation, response.status), "headers")) =>
           \A i \in DOMAIN Matched(operation, response.status).headers :
               LET entry    == Matched(operation, response.status).headers[i]
                   carried  == ToLowerCase(entry.name) \in DOMAIN response.headers
                   required == Has(entry.spec, "required") /\ entry.spec.required
                   prefix   == <<"Header '">> \o entry.name \o <<"': ">>
                   reported == {d \in Range(details) :
                                   Len(d) > Len(prefix) /\ SubSeq(d, 1, Len(prefix)) = prefix}
               IN IF ~carried
                  THEN IF required
                       THEN reported = {prefix \o <<"Required header is missing">>}
                       ELSE reported = {}
                  ELSE IF Has(entry.spec, "schema")
                       THEN LET errors == AjvValidate(entry.spec.schema,
                                                      response.headers[ToLowerCase(entry.name)])
                            IN IF errors = <<>> THEN reported = {}
                               ELSE reported = {prefix \o JoinMessages(errors)}
                       ELSE reported = {}

\* The 200 response spec: the required X-Rate-Limit is missing and the ETag
\* carried is no integer.
C5_Witness ==
    \E j \in Exchanges :
        /\ <<"Header '", "X-Rate-Limit", "': ", "Required header is missing">>
             \in Range(DetailsOf(VerdictOf(j)))
        /\ <<"Header '", "ETag", "': ", "must be ", "integer">>
             \in Range(DetailsOf(VerdictOf(j)))

----------------------------------------------------------------------------
(* What the claims on path resolution speak of *)

\* validate's catch has replaced the results by one synthetic verdict
Aborted == Has(api, "paths") /\ pc \in {"done", "exited"} /\ opIdx <= Len(OperationsToTest)

\* The operations testEndpoint has been called for so far, while the verdicts
\* it returned stand in results
Handled ==
    IF Has(api, "paths") /\ ~Aborted
    THEN {k \in 1..Len(OperationsToTest) : k < opIdx \/ (k = opIdx /\ pc = "await")}
    ELSE {}

\* The requests handed to axios for operation k
RequestsFor(k) == {j \in DOMAIN calls : calls[j].op = k}

\* The names in the placeholders of a template, left to right
PlaceholderNames(path) ==
    LET matches == MatchPathParams(path, 1) IN
    [i \in DOMAIN matches |-> SubSeq(matches[i], 2, Len(matches[i]) - 1)]

OperationLevel(op) ==
    IF Has(op.operation, "parameters") THEN op.operation.parameters ELSE <<>>

PathItemLevel(op) ==
    IF Has(op.pathItem, "parameters") THEN op.pathItem.parameters ELSE <<>>

\* Where a list of parameters declares name with in: path
PathDeclarations(parameters, name) ==
    {i \in DOMAIN parameters :
        /\ Has(parameters[i], "name") /\ parameters[i].name = name
        /\ Has(parameters[i], "in") /\ parameters[i]["in"] = "path"}

Declared(op, name) ==
    \/ PathDeclarations(OperationLevel(op), name) # {}
    \/ PathDeclarations(PathItemLevel(op), name) # {}

DeclaredOnce(op, name) ==
    Cardinality(PathDeclarations(OperationLevel(op), name))
        + Cardinality(PathDeclarations(PathItemLevel(op), name)) = 1

\* The declaration of a name that is declared once
DeclarationOf(op, name) ==
    IF PathDeclarations(OperationLevel(op), name) # {}
    THEN OperationLevel(op)[CHOOSE i \in PathDeclarations(OperationLevel(op), name) : TRUE]
    ELSE PathItemLevel(op)[CHOOSE i \in PathDeclarations(PathItemLevel(op), name) : TRUE]

\* Every declaration of name, at either level, carries an explicit example
AllExemplified(op, name) ==
    /\ \A i \in PathDeclarations(OperationLevel(op), name) : Has(OperationLevel(op)[i], "example")
    /\ \A i \in PathDeclarations(PathItemLevel(op), name) : Has(PathItemLevel(op)[i], "example")

\* A schema with no example, default or enumerated value and no type a value
\* can be derived from
Underivable(schema) ==
    /\ ~Has(schema, "example") /\ ~Has(schema, "default")
    /\ ~(Has(schema, "enum") /\ Len(schema.enum) > 0)
    /\ SchemaType(schema) \notin {"string", "integer", "number", "boolean", "array", "object"}

\* A parameter no example value is obtainable for
Unobtainable(param) ==
    /\ ~Has(param, "example")
    /\ ~(Has(param, "examples") /\ Len(param.examples) > 0)
    /\ (Has(param, "schema") => Underivable(param.schema))

\* Operation k was skipped for this reason, and never requested
SkippedWith(k, reason) ==
    /\ RequestsFor(k) = {}
    /\ k < opIdx
    /\ results[k].error = <<"Skipped", " - ">> \o reason

MissingDefinition(name) == <<"Missing path parameter definition: ">> \o name

NoExampleValue(name) == <<"No example value for path parameter: ">> \o name

\* The least of a non-empty set of indices
First(indices) == CHOOSE i \in indices : \A j \in indices : i <= j

\* The template from chunk i on, each placeholder replaced by the string form
\* of the value of its declaration
RECURSIVE Substituted(_, _, _)
Substituted(path, op, i) ==
    IF i > Len(path) THEN <<>>
    ELSE IF path[i] = "{" /\ NextClose(path, i + 1) > i + 1
    THEN LET j    == NextClose(path, i + 1)
             name == SubSeq(path, i + 1, j - 1)
         IN ToJsString(getParameterExample(DeclarationOf(op, name)))
            \o Substituted(path, op, j + 1)
    ELSE <<path[i]>> \o Substituted(path, op, i + 1)

\* The path item without the path parameters the operation declares too
WithoutShadowed(op) ==
    LET kept == SelectSeq(PathItemLevel(op),
                          LAMBDA p : ~(/\ Has(p, "name") /\ Has(p, "in") /\ p["in"] = "path"
                                       /\ PathDeclarations(OperationLevel(op), p.name) # {}))
    IN [parameters |-> kept] @@ op.pathItem

Shadowing(op) ==
    \E i \in DOMAIN PlaceholderNames(op.path) :
        /\ PathDeclarations(OperationLevel(op), PlaceholderNames(op.path)[i]) # {}
        /\ PathDeclarations(PathItemLevel(op), PlaceholderNames(op.path)[i]) # {}

----------------------------------------------------------------------------
(* C6, as claimed: when the template has a placeholder {name} that neither   *)
(* the operation nor its path item declares in: path, the operation is       *)
(* skipped with reason 'Missing path parameter definition: <name>', naming   *)
(* such a placeholder, and is not requested.                                 *)
C6_AsClaimed ==
    \A k \in Handled :
        LET op         == OperationsToTest[k]
            names      == PlaceholderNames(op.path)
            undeclared == {i \in DOMAIN names : ~Declared(op, names[i])}
        IN undeclared # {} =>
             \E i \in undeclared : SkippedWith(k, MissingDefinition(names[i]))

(* C6, amended: an operation whose template has an undeclared placeholder is *)
(* skipped and not requested; placeholders are resolved left to right and    *)
(* the first that fails gives the reason: it is 'Missing path parameter      *)
(* definition: <name>' for the first undeclared placeholder, or 'No example  *)
(* value for path parameter: <earlier>' for a declared placeholder before    *)
(* it, and is the former whenever every declaration of every placeholder     *)
(* before it carries an explicit example.                                    *)
C6_MissingDefinition ==
    \A k \in Handled :
        LET op         == OperationsToTest[k]
            names      == PlaceholderNames(op.path)
            undeclared == {i \in DOMAIN names : ~Declared(op, names[i])}
        IN undeclared # {} =>
             LET first == First(undeclared) IN
             /\ \/ SkippedWith(k, MissingDefinition(names[first]))
                \/ \E i \in 1..(first - 1) : SkippedWith(k, NoExampleValue(names[i]))
             /\ (\A i \in 1..(first - 1) : AllExemplified(op, names[i]))
                    => SkippedWith(k, MissingDefinition(names[first]))
             /\ results[k].valid /\ results[k].responseTime = 0

\* An operation on /users/{id}/posts/{pid} with id declared with an example
\* and pid undeclared was skipped for pid, and the walk is over.
C6_Witness ==
    /\ pc = "done"
    /\ \E k \in Handled :
         LET op == OperationsToTest[k] IN
         /\ op.path = PostOfUserPath
         /\ Declared(op, <<"id">>) /\ AllExemplified(op, <<"id">>)
         /\ ~Declared(op, <<"pid">>)
         /\ SkippedWith(k, MissingDefinition(<<"pid">>))
         /\ calls = <<>>

----------------------------------------------------------------------------
(* C7: when every placeholder of the template is declared once and some      *)
(* declaration has no obtainable example value (no example, no examples, and *)
(* no schema or a schema with no example, default, enum or known type), the  *)
(* operation is skipped with reason 'No example value for path parameter:    *)
(* <name>' for the first such placeholder, and is never requested.           *)
C7_NoExampleSkips ==
    \A k \in Handled :
        LET op      == OperationsToTest[k]
            names   == PlaceholderNames(op.path)
        IN (\A i \in DOMAIN names : DeclaredOnce(op, names[i])) =>
             LET without == {i \in DOMAIN names : Unobtainable(DeclarationOf(op, names[i]))}
             IN without # {} => SkippedWith(k, NoExampleValue(names[First(without)]))

----------------------------------------------------------------------------
(* C8: when every placeholder of the template is declared once with an       *)
(* obtainable value, the URL requested is the base URL without its trailing  *)
(* slash followed by the template with every placeholder replaced by the     *)
(* string form of its parameter's value.                                     *)
C8_UrlSubstitution ==
    \A k \in Handled :
        LET op    == OperationsToTest[k]
            names == PlaceholderNames(op.path)
        IN (\A i \in DOMAIN names :
                DeclaredOnce(op, names[i]) /\ ~Unobtainable(DeclarationOf(op, names[i])))
           => \E j \in RequestsFor(k) :
                 calls[j].config.url
                     = StripTrailingSlash(validatorOptions.baseUrl) \o Substituted(op.path, op, 1)

----------------------------------------------------------------------------
(* C9: when the path item and the operation both declare a path parameter    *)
(* for a placeholder, the outcome is the one the operation-level declaration *)
(* gives, that is, the outcome of resolving the path with the shadowed       *)
(* path-item declarations left out: the same skip, or the same URL.          *)
C9_OperationLevelWins ==
    \A k \in Handled :
        LET op       == OperationsToTest[k]
            expected == resolvePath(op.path, op.operation, WithoutShadowed(op))
        IN Shadowing(op) =>
             IF expected.skipped
             THEN SkippedWith(k, expected.skipReason)
             ELSE \E j \in RequestsFor(k) :
                     calls[j].config.url = self.baseUrl \o expected.resolvedPath

----------------------------------------------------------------------------
(* C10: for an operation whose path resolution yields a skip, no request is  *)
(* handed to axios, and the verdict recorded for it has response time 0, is  *)
(* not marked failed and has the error text 'Skipped - <reason>'.            *)
C10_SkippedVerdict ==
    \A k \in Handled :
        LET op       == OperationsToTest[k]
            resolved == resolvePath(op.path, op.operation, op.pathItem)
        IN resolved.skipped =>
             /\ RequestsFor(k) = {}
             /\ k < opIdx
             /\ results[k].path = op.path /\ results[k].method = op.method
             /\ results[k].responseTime = 0
             /\ results[k].valid
             /\ results[k].error = <<"Skipped", " - ">> \o resolved.skipReason

\* The walk is over; /users/{id}/posts was skipped for want of an example
\* value, and another operation of the document was requested.
C10_Witness ==
    /\ pc = "done"
    /\ Len(calls) > 0
    /\ \E k \in Handled :
         /\ OperationsToTest[k].path = UserPostsPath
         /\ SkippedWith(k, NoExampleValue(<<"id">>))
         /\ results[k].valid /\ results[k].responseTime = 0

----------------------------------------------------------------------------
(* What the claims on the walk speak of *)

\* The calls axios rejected
Rejections == {j \in DOMAIN answers : Has(answers[j], "error")}

\* The error text testEndpoint's catch gives an error
DescriptionOf(error) ==
    IF error.isAxiosError
    THEN IF error.code = "ECONNREFUSED"
         THEN <<"Connection refused - is the server running?">>
         ELSE error.message
    ELSE <<"Unknown error occurred">>

----------------------------------------------------------------------------
(* C11: when the HTTP call of an operation fails at transport level, the     *)
(* verdict recorded for the operation is failed, carries a non-empty error   *)
(* description and no status code, and nothing of the conformance check: no  *)
(* details.                                                                  *)
C11_TransportFailure ==
    ~Aborted =>
       \A j \in Rejections :
          LET verdict == results[calls[j].op]
              op      == OperationsToTest[calls[j].op]
          IN /\ verdict.path = op.path /\ verdict.method = op.method
             /\ ~verdict.valid
             /\ Has(verdict, "error") /\ Len(verdict.error) > 0
             /\ verdict.error = DescriptionOf(answers[j].error)
             /\ ~Has(verdict, "statusCode")
             /\ ~Has(verdict, "details")

\* The walk is over; a connection was refused and the verdict says so, and
\* another call of the same walk was answered.
C11_Witness ==
    /\ pc = "done" /\ ~Aborted
    /\ \E j \in Rejections :
         /\ answers[j].error.isAxiosError /\ answers[j].error.code = "ECONNREFUSED"
         /\ results[calls[j].op].error = <<"Connection refused - is the server running?">>
         /\ ~results[calls[j].op].valid
    /\ \E j \in DOMAIN answers : Has(answers[j], "response")

----------------------------------------------------------------------------
(* C12: whatever fails while an operation is processed (the transport, the   *)
(* conformance of the response, or an error raised while its path is         *)
(* resolved or its request is built), what validate returns holds a verdict  *)
(* for every other selected operation, those before it and those after it.   *)
C12_FailureIsLocal ==
    (pc = "done" /\ Has(api, "paths")) =>
        \A k \in DOMAIN OperationsToTest :
            (Aborted => k # opIdx) =>
                \E i \in DOMAIN results :
                    /\ results[i].path = OperationsToTest[k].path
                    /\ results[i].method = OperationsToTest[k].method

----------------------------------------------------------------------------
(* What the claims on the verdict list speak of *)

\* Where a path stands in the document, and where a verdict's path does
PathPosition(path) == CHOOSE i \in DOMAIN api.paths : api.paths[i].path = path

\* The operation keys of a path item, in the order the document declares them
DeclaredOrder(item) ==
    IF Has(item, "declared") THEN item.declared
    ELSE LET only == CHOOSE m \in DOMAIN item \ {"parameters"} : TRUE IN <<only>>

\* Where the document declares a method within its path item
DeclaredPosition(path, method) ==
    LET order == DeclaredOrder(api.paths[PathPosition(path)].item) IN
    CHOOSE i \in DOMAIN order : order[i] = method

\* Where validate's loop over methods comes to a method
MethodRank(method) ==
    CASE method = "get"    -> 1
      [] method = "post"   -> 2
      [] method = "put"    -> 3
      [] method = "patch"  -> 4
      [] method = "delete" -> 5

\* The verdicts of a walk stand in results
Walking == Has(api, "paths") /\ pc # "start" /\ ~Aborted

----------------------------------------------------------------------------
(* C13, as claimed: the verdicts are in document order, paths as the         *)
(* document declares them and, within a path, operations as the document     *)
(* declares them, whatever the order of the endpoint list.                   *)
C13_AsClaimed ==
    Walking =>
       \A i, j \in DOMAIN results :
          i < j =>
             \/ PathPosition(results[i].path) < PathPosition(results[j].path)
             \/ /\ results[i].path = results[j].path
                /\ DeclaredPosition(results[i].path, results[i].method)
                     < DeclaredPosition(results[j].path, results[j].method)

(* C13, amended: the verdicts are in traversal order, paths as the document  *)
(* declares them and, within a path, methods in the fixed order get, post,   *)
(* put, patch, delete; the order of the endpoint list plays no part, and a   *)
(* verdict once recorded keeps its place.                                    *)
C13_TraversalOrder ==
    Walking =>
       \A i, j \in DOMAIN results :
          i < j =>
             \/ PathPosition(results[i].path) < PathPosition(results[j].path)
             \/ /\ results[i].path = results[j].path
                /\ MethodRank(results[i].method) < MethodRank(results[j].method)

\* The walk is over; the endpoint list names /users/{id} before /users, the
\* document declares /users first, and the verdicts of /users come first.
C13_Witness ==
    /\ pc = "done" /\ Walking
    /\ endpoints = [list |-> <<UserByIdPath, UsersPath>>]
    /\ Len(results) = 3
    /\ results[1].path = UsersPath /\ results[1].method = "get"
    /\ results[2].path = UsersPath /\ results[2].method = "post"
    /\ results[3].path = UserByIdPath

----------------------------------------------------------------------------
(* C14: when the walk completes, validate has returned exactly one verdict   *)
(* for each declared operation whose method is get, post, put, patch or      *)
(* delete and whose path is selected (every path without an endpoint list,   *)
(* else the paths equal to an entry of the list); other operations have no   *)
(* verdict and no request.                                                   *)
C14_OneVerdictEach ==
    (pc = "done" /\ Walking) =>
       LET selected == {i \in DOMAIN api.paths :
                           Has(endpoints, "list") =>
                               api.paths[i].path \in Range(endpoints.list)}
           expected == UNION {{<<api.paths[i].path, method>> :
                                  method \in {"get", "post", "put", "patch", "delete"}
                                                \cap DOMAIN api.paths[i].item} :
                              i \in selected}
       IN /\ Len(results) = Cardinality(expected)
          /\ {<<results[i].path, results[i].method>> : i \in DOMAIN results} = expected
          /\ \A j \in DOMAIN calls :
                \E e \in expected :
                   /\ calls[j].config.method = e[2]
                   /\ OperationsToTest[calls[j].op].path = e[1]
                   /\ OperationsToTest[calls[j].op].method = e[2]
          /\ \A i, j \in DOMAIN calls : i # j => calls[i].op # calls[j].op

\* The walk is over; the document declares /users and /health (options
\* only); the endpoint list selects /users; the two operations of /users have
\* a verdict and a request each and no other has.
C14_Witness ==
    /\ pc = "done" /\ Walking
    /\ \E i \in DOMAIN api.paths : api.paths[i].path = HealthPath
    /\ \E i \in DOMAIN api.paths : api.paths[i].path = UsersPath
    /\ Has(endpoints, "list") /\ UsersPath \in Range(endpoints.list)
    /\ Len(results) = 2
    /\ Len(calls) = 2

----------------------------------------------------------------------------
(* C15: validate never returns an empty verdict list; when there is nothing  *)
(* to walk (no paths, or no operation under a method it looks for), it       *)
(* returns a single synthetic failed verdict.                                *)
C15_NeverEmpty ==
    pc = "done" =>
       /\ Len(results) >= 1
       /\ (~Has(api, "paths") \/ Len(OperationsToTest) = 0) =>
             (Len(results) = 1 /\ ~results[1].valid /\ results[1].path = <<"/">>)

----------------------------------------------------------------------------
(* C16: operations are exercised one after the other with at most one        *)
(* request each: a request is handed to axios only when no request is in     *)
(* flight and the verdicts of all operations before it are recorded, and no  *)
(* operation is requested a second time, whatever came of its request.       *)
C16_Sequential ==
    [][/\ (run' = run /\ calls' # calls) =>
             LET issued == calls'[Len(calls')] IN
             /\ Len(calls') = Len(calls) + 1
             /\ SubSeq(calls', 1, Len(calls)) = calls
             /\ Len(answers) = Len(calls)
             /\ inflight = Undefined
             /\ Len(results) = issued.op - 1
             /\ \A j \in DOMAIN calls : calls[j].op < issued.op
       /\ Len(calls') - Len(answers') \in {0, 1}
      ]_vars

\* The walk is over; the first request was rejected, the second was made for
\* the next operation and answered.
C16_Witness ==
    /\ pc = "done" /\ Walking
    /\ Len(calls) = 2 /\ Len(answers) = 2
    /\ Has(answers[1], "error")
    /\ Has(answers[2], "response")
    /\ calls[1].op < calls[2].op
    /\ Len(results) >= 2

----------------------------------------------------------------------------
(* What the claim on repetition speaks of *)

\* validate has returned a second time
Repeated == run = 2 /\ pc = "done"

\* A verdict without its response time
WithoutTime(verdict) == [f \in DOMAIN verdict \ {"responseTime"} |-> verdict[f]]

\* A verdict of an operation that was requested: not a skip, not synthetic
IsOfRequest(verdict) ==
    /\ ~(Has(verdict, "statusCode") /\ verdict.statusCode = 0)
    /\ verdict.path # <<"/">>

----------------------------------------------------------------------------
(* C17, as claimed: validate run twice on the same document with a transport *)
(* that gives the same answers returns the same verdict list, every verdict  *)
(* equal in every field.                                                     *)
C17_AsClaimed == Repeated => results = earlier.results

(* C17, amended: the two verdict lists have the same length and each verdict *)
(* equals its counterpart in every field but the response time, which is the *)
(* same too (zero) for verdicts of operations that were not requested.       *)
C17_SameButTime ==
    Repeated =>
       /\ Len(results) = Len(earlier.results)
       /\ \A i \in DOMAIN results :
             /\ WithoutTime(results[i]) = WithoutTime(earlier.results[i])
             /\ ~IsOfRequest(results[i]) =>
                   (results[i].responseTime = 0 /\ earlier.results[i].responseTime = 0)

\* validate has returned twice; both times one operation was skipped and one
\* requested, and the request took longer one time than the other.
C17_Witness ==
    /\ Repeated
    /\ Len(results) = 2 /\ Len(calls) = 1
    /\ \E i \in DOMAIN results : ~IsOfRequest(results[i])
    /\ \E i \in DOMAIN results :
          /\ IsOfRequest(results[i])
          /\ results[i].responseTime # earlier.results[i].responseTime

----------------------------------------------------------------------------
(* What the claims on the commands speak of *)

\* validateApiCommand has counted the verdicts and exited
Counted == pc = "exited" /\ Has(exit, "failedCount")

\* The verdicts of the operations that resolvePath skipped
VerdictsOfSkipped ==
    IF Has(api, "paths") /\ ~Aborted
    THEN {k \in DOMAIN results :
            LET op == OperationsToTest[k]
            IN resolvePath(op.path, op.operation, op.pathItem).skipped}
    ELSE {}

(* C18: when validate-api exits after validating, the verdicts fall into     *)
(* three classes whose sizes are the three counters, so that each verdict is *)
(* counted once: the verdicts of skipped operations (skipped), the other     *)
(* verdicts marked valid (passed) and the other verdicts not marked valid    *)
(* (failed); the exit code is 0 when the failed class is empty, else 1.      *)
C18_Counting ==
    Counted =>
        LET others == DOMAIN results \ VerdictsOfSkipped
            passed == {k \in others : results[k].valid}
            failed == {k \in others : ~results[k].valid}
        IN /\ exit.skippedCount = Cardinality(VerdictsOfSkipped)
           /\ exit.passedCount = Cardinality(passed)
           /\ exit.failedCount = Cardinality(failed)
           /\ exit.code = (IF failed = {} THEN 0 ELSE 1)

\* validate-api has exited with 0 after counting a skip and a pass, no failure
C18_Witness ==
    /\ Counted
    /\ exit.skippedCount > 0
    /\ exit.passedCount > 0
    /\ exit.failedCount = 0
    /\ exit.code = 0

\* The command has exited from its catch block: loadSpec threw
LoadFailed == pc = "exited" /\ ~Has(file, "loaded")

\* readFile rejected: there is no such file, or it cannot be read
Unreadable == Has(file, "code")

(* C19: when the spec file is not found or cannot be read, the command has   *)
(* exited with code 2; for a file that does not exist, the message of the    *)
(* error loadSpec throws starts with 'File not found'.                       *)
C19_ExitsWithTwo ==
    (LoadFailed /\ Unreadable) =>
        /\ exit.code = 2
        /\ file.code = "ENOENT" =>
              SubSeq(loadSpec(SpecPath, file).threw, 1, 2) = <<"File ", "not found">>

----------------------------------------------------------------------------
(* What the claim on SpecValidator speaks of *)

\* SpecValidator.validate has returned
Linted == command = "validate-spec" /\ pc \in {"lint-done", "exited"} /\ Has(file, "loaded")

\* SwaggerParser.dereference rejected
Unresolved == Has(api, "derefError")

\* The operations of the document: [path, method, operation]
LintedOperations == Range(LintOperations(api))

\* A parameter entry that cannot be read makes validate end in its catch
Uninspectable == \E op \in LintedOperations : HasNullParameter(op)

\* A required field is missing: of the document, of its info, of an operation
\* or of a parameter of an operation
MissingRequired ==
    \/ ~Has(api, "info")
    \/ ~Has(api.info, "title")
    \/ ~Has(api.info, "version")
    \/ ~Has(api, "openapi")
    \/ \E op \in LintedOperations :
          \/ ~Has(op.operation, "responses")
          \/ /\ Has(op.operation, "parameters")
             /\ \E i \in DOMAIN op.operation.parameters :
                   LET p == op.operation.parameters[i]
                   IN IsNull(p) \/ ~Has(p, "name") \/ ~Has(p, "in")

\* What only strict mode holds against a document: an operation that
\* defines no response, a security requirement without security schemes
Findings ==
    {<<"No responses defined for ">> \o OperationName(op) :
        op \in {o \in LintedOperations :
                  ~Has(o.operation, "responses") \/ DOMAIN o.operation.responses = {}}}
    \cup (IF /\ Has(api, "components") /\ Has(api, "security") /\ Len(api.security) > 0
              /\ ~Has(api.components, "securitySchemes")
           THEN {<<"Security requirements defined but no security schemes found">>}
           ELSE {})

StrictFindings == Findings # {}

\* The warnings the document deserves
DeservedWarnings ==
    (IF ~Has(api, "paths") \/ Len(api.paths) = 0
     THEN {<<"No paths defined in the specification">>} ELSE {})
    \cup (IF ~Has(api.info, "description") THEN {<<"Missing API description">>} ELSE {})
    \cup {<<"Missing operationId for ">> \o OperationName(op) :
            op \in {o \in LintedOperations : ~Has(o.operation, "operationId")}}
    \cup {<<"Missing summary/description for ">> \o OperationName(op) :
            op \in {o \in LintedOperations :
                      ~Has(o.operation, "summary") /\ ~Has(o.operation, "description")}}

(* C20: when SpecValidator.validate has returned, valid is true exactly when *)
(* nothing gave an error: the references resolved, the schema validation     *)
(* passed, no required field is missing and, in strict mode only, every      *)
(* operation defines a response.  The errors field is absent exactly when    *)
(* valid is true and otherwise holds at least one error.  When the document  *)
(* resolved and could be inspected, the warnings it deserves are all         *)
(* returned, whether or not it is valid.  When the references did not        *)
(* resolve, valid is false, there is an error and there is no info.          *)
C20_ValidIffNoError ==
    Linted =>
        /\ lint.valid = (/\ ~Unresolved
                         /\ IsUndefined(schemaCheck)
                         /\ ~MissingRequired
                         /\ strict => ~StrictFindings)
        /\ lint.valid = ~Has(lint, "errors")
        /\ Has(lint, "errors") => Len(lint.errors) >= 1
        /\ (~Unresolved /\ Has(api, "info") /\ ~Uninspectable) =>
              /\ Has(lint, "info")
              /\ DeservedWarnings = (IF Has(lint, "warnings") THEN Range(lint.warnings) ELSE {})
        /\ Unresolved => ~lint.valid /\ Has(lint, "errors") /\ ~Has(lint, "info")

\* validate has returned valid, in non-strict mode, with warnings, for a
\* document strict mode would refuse
C20_Witness ==
    /\ Linted
    /\ ~strict
    /\ lint.valid
    /\ ~Has(lint, "errors")
    /\ StrictFindings
    /\ Has(lint, "warnings")
    /\ Len(lint.warnings) >= 2

\* validate has returned from its last return statement: the references
\* resolved and the document could be inspected
Inspected == Linted /\ ~Unresolved /\ Has(api, "info") /\ ~Uninspectable

\* The messages of the errors of type 'warning-as-error' in the result
StrictMessages ==
    IF Has(lint, "errors")
    THEN {lint.errors[i].message :
            i \in {j \in DOMAIN lint.errors : lint.errors[j].type = "warning-as-error"}}
    ELSE {}

----------------------------------------------------------------------------
(* What the claims on the example synthesizer speak of *)

\* The JSON media type of the request body of the operation of call j
JsonBodyOf(j) ==
    OperationsToTest[calls[j].op].operation.requestBody.content["application/json"]

\* The calls whose body the synthesizer made from the schema of the media type
SynthesizedCalls ==
    {j \in DOMAIN calls :
        LET operation == OperationsToTest[calls[j].op].operation IN
        /\ Has(calls[j].config, "data")
        /\ Has(operation, "requestBody")
        /\ Has(operation.requestBody, "content")
        /\ Has(operation.requestBody.content, "application/json")
        /\ ~Has(JsonBodyOf(j), "example")
        /\ ~Has(JsonBodyOf(j), "examples")
        /\ Has(JsonBodyOf(j), "schema")}

SchemaOf(j) == JsonBodyOf(j).schema

SentBody(j) == calls[j].config.data

\* The schema has an example, a default or a first allowed value
HasShortcut(schema) ==
    Has(schema, "example") \/ Has(schema, "default")
    \/ (Has(schema, "enum") /\ Len(schema.enum) > 0)

(* C22: the body synthesized from a schema is its example; else its default; *)
(* else its first allowed value; else for type integer or number the minimum *)
(* if declared and 1 otherwise, for boolean true, for array a list of the    *)
(* value synthesized from the item schema or the empty list without item     *)
(* schema, for object what the object rule gives, and null for a type that   *)
(* is none of string, integer, number, boolean, array, object, or missing.   *)
C22_RuleOrder ==
    \A j \in SynthesizedCalls :
        LET schema == SchemaOf(j)
            value  == SentBody(j)
            type   == SchemaType(schema)
        IN IF Has(schema, "example") THEN SameValue(value, schema.example)
           ELSE IF Has(schema, "default") THEN SameValue(value, schema.default)
           ELSE IF Has(schema, "enum") /\ Len(schema.enum) > 0
           THEN SameValue(value, schema.enum[1])
           ELSE /\ type \in {"integer", "number"} =>
                      SameValue(value, Num(IF Has(schema, "minimum") THEN schema.minimum ELSE 1))
                /\ type = "boolean" => SameValue(value, Bool(TRUE))
                /\ type = "array" =>
                      /\ value.t = "array"
                      /\ Len(value.v) = (IF Has(schema, "items") THEN 1 ELSE 0)
                      /\ Has(schema, "items") =>
                            SameValue(value.v[1], generateExampleFromSchema(schema.items))
                /\ type = "object" => SameValue(value, generateObjectExample(schema))
                /\ type = "string" => value.t = "string"
                /\ type \notin {"string", "integer", "number", "boolean", "array", "object"} =>
                      value.t = "null"

\* A body was synthesized from a schema with a default and allowed values but
\* no example: it is the default, not the first allowed value
C22_Witness ==
    \E j \in SynthesizedCalls :
          /\ ~Has(SchemaOf(j), "example") /\ Has(SchemaOf(j), "default")
          /\ Has(SchemaOf(j), "enum")
          /\ SameValue(SentBody(j), SchemaOf(j).default)
          /\ ~SameValue(SentBody(j), SchemaOf(j).enum[1])

\* The object rule at every depth: the keys of the value are the declared
\* properties that are required or have an example, each with the value
\* synthesized from its schema
RECURSIVE Minimal(_, _)
Minimal(schema, value) ==
    IF HasShortcut(schema) THEN TRUE
    ELSE IF SchemaType(schema) = "object"
    THEN LET props    == IF Has(schema, "properties") THEN schema.properties ELSE <<>>
             required == IF Has(schema, "required") THEN Range(schema.required) ELSE {}
             included == {i \in DOMAIN props :
                            props[i].name \in required \/ Has(props[i].schema, "example")}
         IN /\ value.t = "object"
            /\ Range(value.k) = {props[i].name : i \in included}
            /\ Len(value.k) = Cardinality(included)
            /\ \A i \in included :
                  LET at == KeyIndex(value.k, props[i].name, 1) IN
                  /\ SameValue(value.v[at], generateExampleFromSchema(props[i].schema))
                  /\ Minimal(props[i].schema, value.v[at])
    ELSE IF SchemaType(schema) = "array" /\ Has(schema, "items")
    THEN value.t = "array" /\ Len(value.v) = 1 /\ Minimal(schema.items, value.v[1])
    ELSE TRUE

(* C23: in a synthesized body, every object made by the object rule, at any  *)
(* depth, has exactly the declared properties that are listed in required or *)
(* carry an example of their own, each with the value synthesized from its   *)
(* own schema.                                                               *)
C23_MinimalObject == \A j \in SynthesizedCalls : Minimal(SchemaOf(j), SentBody(j))

\* A body with a nested object: a declared property without required or
\* example was left out at both depths
C23_Witness ==
    \E j \in SynthesizedCalls :
        LET schema == SchemaOf(j)
            value  == SentBody(j)
        IN /\ ~HasShortcut(schema)
           /\ SchemaType(schema) = "object"
           /\ value.t = "object"
           /\ KeyIndex(value.k, <<"owner">>, 1) # 0
           /\ KeyIndex(value.k, <<"name">>, 1) = 0
           /\ LET owner == value.v[KeyIndex(value.k, <<"owner">>, 1)]
              IN /\ owner.t = "object"
                 /\ Range(owner.k) = {<<"id">>, <<"nick">>}

(* C24: a body synthesized from a schema without example or default         *)
(* satisfies the schema: the schema evaluator reports no error for it.       *)
C24_SchemaValid ==
    \A j \in SynthesizedCalls :
        (~Has(SchemaOf(j), "example") /\ ~Has(SchemaOf(j), "default")) =>
            AjvValidate(SchemaOf(j), SentBody(j)) = <<>>

RecognizedFormats == {"date", "date-time", "email", "uuid", "uri"}

\* The calls whose body the string rule made
StringCalls ==
    {j \in SynthesizedCalls : ~HasShortcut(SchemaOf(j)) /\ SchemaType(SchemaOf(j)) = "string"}

\* What the string rule gives for a recognized format
Canonical(format) ==
    CASE format = "date"      -> <<"2", "0", "2", "4", "-", "0", "1", "-", "0", "1">>
      [] format = "date-time" -> <<"2", "0", "2", "4", "-", "0", "1", "-", "0", "1",
                                   "T", "0", "0", ":", "0", "0", ":", "0", "0", "Z">>
      [] format = "email"     -> <<"test", "@", "example.com">>
      [] format = "uuid"      -> <<"550e8400-e29b-41d4-a716-446655440000">>
      [] format = "uri"       -> <<"https:", "/", "/", "example.com">>

Recognized(schema) == Has(schema, "format") /\ schema.format \in RecognizedFormats

\* The text is the filler character n times
Filler(text, n) == Len(text) = n /\ \A i \in DOMAIN text : text[i] = "x"

\* C25 as stated: without a recognized format, a schema with a minLength
\* gives the filler character minLength times, whatever minLength is.
C25_AsClaimed ==
    \A j \in StringCalls :
        (~Recognized(SchemaOf(j)) /\ Has(SchemaOf(j), "minLength")) =>
            Filler(SentBody(j).v, SchemaOf(j).minLength)

(* C25: the value of a string schema is a string: the fixed literal of its   *)
(* format when the format is date, date-time, email, uuid or uri (an e-mail  *)
(* literal contains '@'); else, when minLength is set and is not 0, the      *)
(* filler character exactly minLength times; else, also when minLength is 0, *)
(* the literal 'string'.                                                     *)
C25_StringRule ==
    \A j \in StringCalls :
        LET schema == SchemaOf(j)
            value  == SentBody(j)
        IN /\ value.t = "string"
           /\ IF Recognized(schema)
              THEN /\ value.v = Canonical(schema.format)
                   /\ schema.format = "email" => \E i \in DOMAIN value.v : value.v[i] = "@"
              ELSE IF Has(schema, "minLength") /\ schema.minLength # 0
              THEN Filler(value.v, schema.minLength) /\ StringLength(value.v) = schema.minLength
              ELSE value.v = <<"string">>

\* A body was made by the string rule for a minLength of 3 without format
C25_Witness ==
    \E j \in StringCalls :
          /\ ~Has(SchemaOf(j), "format") /\ Has(SchemaOf(j), "minLength")
          /\ SchemaOf(j).minLength = 3 /\ SentBody(j).v = <<"x", "x", "x">>

\* The walk ended with the error of a recursion that never ends
Overflowed ==
    /\ Aborted
    /\ results = <<SyntheticVerdict(<<"Maximum call stack size exceeded">>)>>

(* C26: the synthesizer returns a value for every schema: no walk ends with  *)
(* the error of a synthesis that did not terminate.                          *)
C26_Total == ~Overflowed

----------------------------------------------------------------------------
(* What the claims on the request builder speak of *)

ConfigOf(j) == calls[j].config

PathItemOf(j) == OperationsToTest[calls[j].op].pathItem

\* The media types the request body of the operation of call j declares
DeclaredContent(j) ==
    IF Has(OperationOf(j), "requestBody") /\ Has(OperationOf(j).requestBody, "content")
    THEN OperationOf(j).requestBody.content ELSE <<>>

\* The content type the body builder is to choose, or "none"
ChosenType(j) ==
    IF "application/json" \in DOMAIN DeclaredContent(j) THEN "application/json"
    ELSE IF "application/x-www-form-urlencoded" \in DOMAIN DeclaredContent(j)
    THEN "application/x-www-form-urlencoded"
    ELSE "none"

\* The calls of a method that carries a body, for an operation with a request body
BodyCalls ==
    {j \in DOMAIN calls :
        ConfigOf(j).method \in {"post", "put", "patch"} /\ Has(OperationOf(j), "requestBody")}

(* C27: for a POST, PUT or PATCH operation that declares a request body, the *)
(* request has a body iff application/json or                                *)
(* application/x-www-form-urlencoded is declared; the media type used is     *)
(* application/json if declared and the form type otherwise; the body is the *)
(* example of that media type, else the value of the first entry of its      *)
(* examples, else the value synthesized from its schema; and the             *)
(* Content-Type header is the content type used.                             *)
C27_BodyBuilder ==
    \A j \in BodyCalls :
        IF ChosenType(j) = "none" THEN ~Has(ConfigOf(j), "data")
        ELSE LET mediaType == DeclaredContent(j)[ChosenType(j)] IN
             /\ Has(ConfigOf(j), "data")
             /\ "Content-Type" \in DOMAIN ConfigOf(j).headers
             /\ ConfigOf(j).headers["Content-Type"] = <<ChosenType(j)>>
             /\ IF Has(mediaType, "example")
                THEN SameValue(ConfigOf(j).data, mediaType.example)
                ELSE IF Has(mediaType, "examples") /\ Len(mediaType.examples) > 0
                        /\ Has(mediaType.examples[1], "value")
                THEN SameValue(ConfigOf(j).data, mediaType.examples[1].value)
                ELSE Has(mediaType, "schema") =>
                        SameValue(ConfigOf(j).data, generateExampleFromSchema(mediaType.schema))

\* A body was built from the form content, declared without JSON content and
\* without example: the value of the first entry of its examples was sent
C27_Witness ==
    \E j \in BodyCalls :
        /\ DOMAIN DeclaredContent(j) = {"application/x-www-form-urlencoded"}
        /\ ~Has(DeclaredContent(j)["application/x-www-form-urlencoded"], "example")
        /\ Has(DeclaredContent(j)["application/x-www-form-urlencoded"], "examples")
        /\ Has(ConfigOf(j), "data")
        /\ SameValue(ConfigOf(j).data, JaneExample)
        /\ ConfigOf(j).headers["Content-Type"] = <<"application/x-www-form-urlencoded">>

\* The query parameters sent with call j
ParamsOf(j) == IF Has(ConfigOf(j), "params") THEN ConfigOf(j).params ELSE <<>>

\* The declarations of query parameters call j was built from
QueryDeclarations(j) ==
    {param \in Range(AllParameters(OperationOf(j), PathItemOf(j))) :
        Has(param, "in") /\ param["in"] = "query"}

\* The example precedence gives the declaration no value
WithoutValue(param) ==
    IsUndefined(getParameterExample(param)) \/ IsNull(getParameterExample(param))

(* C28: a query parameter sent is declared required or with an example of    *)
(* its own, and its value is the text of what the example precedence gives;  *)
(* a query parameter for which the precedence gives no value is not sent;    *)
(* and no operation is skipped because of a query parameter.                 *)
C28_QueryParams ==
    /\ \A j \in DOMAIN calls :
          /\ \A name \in DOMAIN ParamsOf(j) :
                \E param \in QueryDeclarations(j) :
                    /\ param.name = name
                    /\ (Has(param, "required") /\ param.required) \/ Has(param, "example")
                    /\ ParamsOf(j)[name] = ToJsString(getParameterExample(param))
          /\ \A param \in QueryDeclarations(j) :
                WithoutValue(param) => param.name \notin DOMAIN ParamsOf(j)
    /\ \A k \in DOMAIN results : ~isSkipped(results[k])

\* C29 as stated: every header of the caller is carried as given, and a
\* Content-Type is carried only with a body.
C29_AsClaimed ==
    \A j \in DOMAIN calls :
        /\ "Accept" \in DOMAIN ConfigOf(j).headers
        /\ ConfigOf(j).headers["Accept"] = <<"application/json">>
        /\ \A h \in DOMAIN self.headers :
              h \in DOMAIN ConfigOf(j).headers /\ ConfigOf(j).headers[h] = self.headers[h]
        /\ "Content-Type" \in DOMAIN ConfigOf(j).headers => Has(ConfigOf(j), "data")

(* C29: every request carries Accept: application/json, which replaces an    *)
(* Accept header of the caller, and every other header of the caller as      *)
(* given, but for Content-Type: a request with a body carries the content    *)
(* type of the body as Content-Type, which replaces the caller's; a request  *)
(* without body carries a Content-Type iff the caller supplied one, and then *)
(* the caller's.                                                             *)
C29_Headers ==
    \A j \in DOMAIN calls :
        LET headers == ConfigOf(j).headers IN
        /\ "Accept" \in DOMAIN headers
        /\ headers["Accept"] = <<"application/json">>
        /\ \A h \in DOMAIN self.headers \ {"Accept", "Content-Type"} :
              h \in DOMAIN headers /\ headers[h] = self.headers[h]
        /\ DOMAIN headers = DOMAIN self.headers \cup {"Accept"}
                            \cup (IF Has(ConfigOf(j), "data") THEN {"Content-Type"} ELSE {})
        /\ IF Has(ConfigOf(j), "data")
           THEN headers["Content-Type"] = <<ChosenType(j)>>
           ELSE "Content-Type" \in DOMAIN self.headers =>
                    headers["Content-Type"] = self.headers["Content-Type"]

\* A request without body went out with the Content-Type and the key of the
\* caller next to the fixed Accept
C29_Witness ==
    \E j \in DOMAIN calls :
        /\ ~Has(ConfigOf(j), "data")
        /\ DOMAIN ConfigOf(j).headers = {"Accept", "Content-Type", "X-API-Key"}
        /\ ConfigOf(j).headers["Content-Type"] = <<"text/plain">>
        /\ ConfigOf(j).headers["Accept"] = <<"application/json">>

(* C30: a request carries a body only if its method is POST, PUT or PATCH;   *)
(* a GET or DELETE request has no body, also when its operation declares a   *)
(* request body with a supported content type, and the only Content-Type it  *)
(* may carry is the one the caller supplied.                                 *)
C30_BodyMethods ==
    \A j \in DOMAIN calls :
        /\ Has(ConfigOf(j), "data") => ConfigOf(j).method \in {"post", "put", "patch"}
        /\ ConfigOf(j).method \in {"get", "delete"} =>
              /\ ~Has(ConfigOf(j), "data")
              /\ "Content-Type" \in DOMAIN ConfigOf(j).headers =>
                    /\ "Content-Type" \in DOMAIN self.headers
                    /\ ConfigOf(j).headers["Content-Type"] = self.headers["Content-Type"]

\* A DELETE request was sent for an operation whose request body declares
\* JSON content, with no body and no Content-Type
C30_Witness ==
    \E j \in DOMAIN calls :
        /\ ConfigOf(j).method = "delete"
        /\ ChosenType(j) = "application/json"
        /\ ~Has(ConfigOf(j), "data")
        /\ "Content-Type" \notin DOMAIN ConfigOf(j).headers

====
